---- MODULE Spec2Model ----
(***************************************************************************)
(* A model of jeweler's result archive (src/src/jeweler/io.py) and of the  *)
(* batch searches that write to it (src/src/jeweler/search.py).            *)
(*                                                                         *)
(* Every system call that touches a container file or its flock is one     *)
(* step, so that processes interleave the way the operating system lets    *)
(* them.  A Python text file opened by open() buffers what is written to   *)
(* it; the bytes reach the file when the buffer is flushed (seek, truncate,*)
(* close).  The containers modelled here are far smaller than the buffer,  *)
(* so json.dump fills the buffer and close() writes it.                    *)
(***************************************************************************)
EXTENDS Integers, Sequences, FiniteSets, TLC

\* ------------------------------------------------------------------ bounds
NumProcs == 2        \* concurrent search processes
MinLen == 2          \* K, the shortest code length searched
MaxLen == 3          \* L, the longest code length searched
MaxCost == 2         \* scores are drawn from 1..MaxCost
MaxBatches == 2      \* batches the generator of one length yields at most
MaxCalls == 2        \* calls the API client makes at most
MaxCands == 1        \* distinct codes a batch can put forward per length
MaxProgress == 1     \* progress counts passed to ArchiverPandas.update
MaxBatchSize == 3    \* batch_bits runs up to MaxBatchSize codes of MinLen
MaxWords == 3        \* words the iterable given to _necklace_chunk holds
MaxN == 50          \* the largest argument of moebius and is_prime
MaxGenLen == 6       \* the longest code necklace, bracelet and lyndon search

Procs == 1..NumProcs
Lengths == MinLen..MaxLen
GenLengths == MinLen..MaxGenLen
\* The lengths a call can name a container <length>.json for.
Files == Lengths \cup GenLengths
Costs == 1..MaxCost
Objectives == {"f", "g"}
NoProc == 0
NoLen == 0
NegInf == 0          \* -np.inf: below every score of Costs
PosInf == MaxCost + 1    \* np.inf: above every score of Costs
NaN == -1            \* np.nan: every comparison with it is False
\* a > b on floats
Gt(a, b) == a # NaN /\ b # NaN /\ a > b

\* The density of a call, in tenths; the default density is one half.
VARIABLE density
Half == 5
\* weight = int(length * density)
Weight(n) == (n * density) \div 10

\* str(weight): the key of the outer JSON object
Str(w) == ToString(w)

\* ------------------------------------------------------- the JSON table
\* data[W][objective] = {cost, code}: a function from weight strings to
\* functions from objective names to records.
EmptyTbl == [x \in {} |-> 0]
Has(data, W, o) == W \in DOMAIN data /\ o \in DOMAIN data[W]
Inner(data, W) == IF W \in DOMAIN data THEN data[W] ELSE EmptyTbl
Put(data, W, o, rec) ==
    [x \in DOMAIN data \cup {W} |->
        IF x = W
        THEN [y \in DOMAIN Inner(data, W) \cup {o} |->
                 IF y = o THEN rec ELSE data[W][y]]
        ELSE data[x]]

\* What a container file holds: no file, zero bytes, a JSON document, or
\* bytes that do not parse.
Missing == [st |-> "missing", tbl |-> EmptyTbl]
Empty == [st |-> "empty", tbl |-> EmptyTbl]
Json(data) == [st |-> "json", tbl |-> data]
Garbage == [st |-> "garbage", tbl |-> EmptyTbl]

\* (a reader that takes whatever it finds for a table)
ParsesLenient(content) == TRUE
\* json.load: the table of a JSON document; anything else raises.
Parses(content) == content.st = "json"

\* A write of the text of `data` at offset 0 of a file opened with 'w': it
\* replaces the first bytes of whatever the file holds by then.
WriteAtStart(content, data) ==
    CASE content.st \in {"empty", "missing"} -> Json(data)
      [] content.st = "json" /\ content.tbl = data -> content
      [] OTHER -> Garbage

\* A write of the text of `data` through a file opened with 'a+': O_APPEND
\* puts the bytes after whatever the file holds by then.
WriteAtEnd(content, data) ==
    IF content.st \in {"empty", "missing"} THEN Json(data) ELSE Garbage

\* A write of an incomplete document (json.dump raised half way).
WritePartial(content) == Garbage

VARIABLES
    driver,      \* which program runs: "search", "api", "pandas", "run",
                 \* "chunks", "single", "orders", "moebius" or "is_prime"
    disk,        \* disk[n]: the contents of <output_dir>/n.json
    lock,        \* lock[n]: the process holding flock(LOCK_EX) on n.json
    pc,          \* pc[p]: where process p stands
    ret,         \* ret[p]: where _close_file returns to
    selfF,       \* Archiver.f is not None
    selfL,       \* Archiver.L
    selfData,    \* Archiver.data
    pend,        \* what the buffer of Archiver.f holds unwritten
    leaked,      \* lengths whose locked file object p no longer names
    exc,         \* an exception is propagating out of the with-block
    raised,      \* ghost: the call that raised first in the search of p
    args,        \* the arguments of the running update call
    length,      \* search: the length of the running loop
    score_best,  \* search: the running best score of the length
    batches,     \* search: batches of the length scored so far
    calls,       \* api: update calls made so far
    opened,      \* ghost: the table p read when it locked its container
    lastUpd,     \* ghost: the last update call p completed
    submitted,   \* ghost: the highest cost passed to update per length
    fetched,     \* the result of the last Archiver.fetch
    ptable,      \* ArchiverPandas.table
    pbest,       \* ArchiverPandas.best_cost
    pneeds,      \* ArchiverPandas._needs_dump
    pfile,       \* the container file of the ArchiverPandas
    pres,        \* the result of the last ArchiverPandas.fetch
    plast,       \* ghost: the last ArchiverPandas.update call
    pseen,       \* ghost: the highest progress a fetch of SeenSearch returned
    pmono,       \* ghost: no update passed less progress than one before
    strategy,    \* run: the search function called
    K,           \* run: the minimum code length, inclusive
    L,           \* run: the maximum code length, inclusive
    batch_bits,  \* run: the bit budget of a batch
    objective_function,  \* run: the score of every code
    gen_pos,     \* how many items the running generator has taken
    gen_done,    \* the running generator has made its last yield
    batch,       \* the batch the generator yielded last
    code_best,   \* run: the code of the running best of the length
    scored,      \* ghost: the batches yielded for the length so far
    pass,        \* run: 1 in the first call, 2 in the call after it
    disk0,       \* ghost: the containers before the first call
    necklaces,   \* chunks: the words _necklace_chunk is given
    chunksize,   \* chunks: the rows of a chunk
    score_bests, \* lyndon: score_best, the best score of every length 0..L
    arg,         \* moebius, is_prime: the argument of the call
    result       \* moebius, is_prime: what the call returned

avars == <<disk, lock, pc, ret, selfF, selfL, selfData, pend, leaked, exc,
           raised,
           args, length, score_best, batches, calls, opened, lastUpd,
           submitted, fetched>>
pvars == <<ptable, pbest, pneeds, pfile, pres, plast, pseen, pmono>>
rvars == <<strategy, K, L, batch_bits, objective_function, gen_pos, gen_done,
           batch, code_best, scored, pass, disk0, necklaces, chunksize,
           score_bests, density, arg, result>>
vars == <<driver, avars, pvars, rvars>>

\* ---------------------------------------------------------- initial state
NoRec == [cost |-> NegInf, code |-> << >>]
NoArgs == [objective |-> "f", code |-> << >>, cost |-> NegInf, weight |-> 0]
NoUpd == [n |-> NoLen, W |-> "", objective |-> "", rec |-> NoRec,
          accepted |-> FALSE, committed |-> FALSE]
NoFetch == [n |-> NoLen, W |-> "", objective |-> "", res |-> "none",
            rec |-> NoRec]

\* The objective a search process scores with (its __name__ is the key).
ObjectiveOf(p) == "f"

\* Containers a run can find: none yet, one a killed writer left with zero
\* bytes, an empty table, or a table with a record of an earlier run.
FirstCode(n) == [i \in 1..n |-> IF i > n - Weight(n) THEN 1 ELSE 0]
\* The codes a batch of length n can put forward: rotations of FirstCode(n).
Rot(c, i) == [j \in 1..Len(c) |-> c[((j - 1 + i) % Len(c)) + 1]]
Candidates(n) == {Rot(FirstCode(n), i) : i \in 0..(MaxCands - 1)}
InitContents(n) ==
    {Missing} \cup
    {Json(Put(EmptyTbl, Str(Weight(n)), "f", [cost |-> c, code |-> FirstCode(n)])) :
        c \in Costs}

PNoRes == [search |-> "", objective |-> "", weight |-> 0, res |-> "none",
           code |-> << >>, cost |-> NegInf, progress |-> 0]
PNoCall == [search |-> "", objective |-> "", code |-> << >>, cost |-> NegInf,
            weight |-> 0, progress |-> 0, appended |-> FALSE, top |-> FALSE,
            dumped |-> FALSE]
PMissing == [st |-> "missing", rows |-> << >>]

InitArchiver ==
    /\ lock = [n \in DOMAIN disk |-> NoProc]
    /\ pc = [p \in Procs |-> "idle"]
    /\ ret = [p \in Procs |-> "done"]
    /\ selfF = [p \in Procs |-> FALSE]
    /\ selfL = [p \in Procs |-> NoLen]
    /\ selfData = [p \in Procs |-> EmptyTbl]
    /\ pend = [p \in Procs |-> "none"]
    /\ leaked = [p \in Procs |-> {}]
    /\ exc = [p \in Procs |-> FALSE]
    /\ raised = [p \in Procs |-> "none"]
    /\ args = [p \in Procs |-> NoArgs]
    /\ length = [p \in Procs |-> NoLen]
    /\ score_best = [p \in Procs |-> NegInf]
    /\ batches = [p \in Procs |-> 0]
    /\ calls = [p \in Procs |-> 0]
    /\ opened = [p \in Procs |-> EmptyTbl]
    /\ lastUpd = [p \in Procs |-> NoUpd]
    /\ submitted = [n \in Lengths |-> NegInf]
    /\ fetched = NoFetch

InitPandas ==
    /\ ptable = << >>
    /\ pbest = NegInf
    /\ pneeds = FALSE
    /\ pres = PNoRes
    /\ plast = PNoCall
    /\ pseen = 0
    /\ pmono = TRUE

\* Outside a run the variables of a run stand still.
InitNoRun ==
    /\ density = Half
    /\ strategy = "none"
    /\ K = NoLen
    /\ L = NoLen
    /\ batch_bits = 0
    /\ objective_function = << >>
    /\ gen_pos = 0
    /\ gen_done = FALSE
    /\ batch = << >>
    /\ code_best = << >>
    /\ scored = << >>
    /\ pass = 1
    /\ disk0 = << >>
    /\ necklaces = << >>
    /\ chunksize = 0
    /\ score_bests = << >>
    /\ arg = 0
    /\ result = 0

Init ==
    /\ driver = "search"
    /\ InitNoRun
    /\ disk \in [Lengths -> UNION {InitContents(n) : n \in Lengths}]
    /\ \A n \in Lengths : disk[n] \in InitContents(n)
    /\ pfile = PMissing
    /\ InitArchiver
    /\ InitPandas

\* The one client of the API, and the one search of a run, is process Client.
Client == 1

\* ------------------------------------------------- Archiver, step by step
Set(f, p, v) == [f EXCEPT ![p] = v]

\* An exception leaves the Archiver: a search lets it propagate out of its
\* with-block, whose __exit__ runs; the API client catches it.
Searching == driver \in {"search", "run", "orders"}
First(p, what) ==
    IF Searching /\ raised[p] = "none" THEN Set(raised, p, what)
    ELSE raised
Raise(p, what) ==
    IF Searching
    THEN /\ exc' = Set(exc, p, TRUE)
         /\ raised' = First(p, what)
         /\ pc' = Set(pc, p, "x_exit")
    ELSE /\ exc' = exc
         /\ raised' = raised
         /\ pc' = Set(pc, p, "ready")

\* (a _get_data that opens the next container with the current one open)
GetDataKeep(p) ==
    /\ pc[p] = "u_get"
    /\ pc' = Set(pc, p, IF Len(args[p].code) = selfL[p] THEN "u_apply"
                         ELSE "g_isfile")
    /\ UNCHANGED <<driver, rvars, disk, lock, ret, selfF, selfL, selfData, pend,
                   leaked, exc, raised, args, length, score_best, batches, calls,
                   opened, lastUpd, submitted, fetched, pvars>>
\* update: L = len(best_code); data = self._get_data(L).  _get_data returns
\* self.data when L == self.L, and otherwise closes the current file first.
GetData(p) ==
    /\ pc[p] = "u_get"
    /\ LET n == Len(args[p].code) IN
        IF n = selfL[p]
        THEN /\ pc' = Set(pc, p, "u_apply")
             /\ ret' = ret
        ELSE IF selfF[p]
        THEN /\ pc' = Set(pc, p, "c_trunc")
             /\ ret' = Set(ret, p, "g_isfile")
        ELSE /\ pc' = Set(pc, p, "g_isfile")
             /\ ret' = ret
    /\ UNCHANGED <<driver, rvars, disk, lock, selfF, selfL, selfData, pend, leaked,
                   exc, raised, args, length, score_best, batches, calls, opened,
                   lastUpd, submitted, fetched, pvars>>

\* os.path.isfile(filename)
IsFile(p) ==
    /\ pc[p] = "g_isfile"
    /\ LET n == Len(args[p].code) IN
        pc' = Set(pc, p, IF disk[n].st = "missing" THEN "g_create" ELSE "g_lock")
    /\ UNCHANGED <<driver, rvars, disk, lock, ret, selfF, selfL, selfData, pend,
                   leaked, exc, raised, args, length, score_best, batches, calls,
                   opened, lastUpd, submitted, fetched, pvars>>

\* open(filename, 'w'): creates the file, or cuts it to zero bytes
CreateOpen(p) ==
    /\ pc[p] = "g_create"
    /\ LET n == Len(args[p].code) IN
        /\ disk' = [disk EXCEPT ![n] = Empty]
    /\ pc' = Set(pc, p, "g_init")
    /\ UNCHANGED <<driver, rvars, lock, ret, selfF, selfL, selfData, pend, leaked,
                   exc, raised, args, length, score_best, batches, calls, opened,
                   lastUpd, submitted, fetched, pvars>>

\* json.dump({}, f) and the close of the with statement, which writes it
CreateWrite(p) ==
    /\ pc[p] = "g_init"
    /\ LET n == Len(args[p].code) IN
        /\ disk' = [disk EXCEPT ![n] = WriteAtStart(disk[n], EmptyTbl)]
    /\ pc' = Set(pc, p, "g_lock")
    /\ UNCHANGED <<driver, rvars, lock, ret, selfF, selfL, selfData, pend, leaked,
                   exc, raised, args, length, score_best, batches, calls, opened,
                   lastUpd, submitted, fetched, pvars>>

\* f = open(filename, 'a+'); fcntl.flock(f, fcntl.LOCK_EX): waits for the lock
Flock(p) ==
    /\ pc[p] = "g_lock"
    /\ LET n == Len(args[p].code) IN
        /\ lock[n] = NoProc
        /\ lock' = [lock EXCEPT ![n] = p]
    /\ pc' = Set(pc, p, "g_load")
    /\ UNCHANGED <<driver, rvars, disk, ret, selfF, selfL, selfData, pend, leaked,
                   exc, raised, args, length, score_best, batches, calls, opened,
                   lastUpd, submitted, fetched, pvars>>

\* f.seek(0); data = json.load(f); on success self.f, self.data, self.L are
\* set.  On JSONDecodeError the exception is raised again: f stays open and
\* locked, and nothing names it but the frame of the exception.
Load(p) ==
    /\ pc[p] = "g_load"
    /\ LET n == Len(args[p].code) IN
        /\ IF Parses(disk[n])
           THEN /\ selfF' = Set(selfF, p, TRUE)
                /\ selfData' = Set(selfData, p, disk[n].tbl)
                /\ selfL' = Set(selfL, p, n)
                /\ opened' = Set(opened, p, disk[n].tbl)
                /\ pc' = Set(pc, p, "u_apply")
                /\ UNCHANGED <<leaked, exc, raised>>
           ELSE /\ leaked' = Set(leaked, p, leaked[p] \cup {n})
                /\ Raise(p, "json.load")
                /\ UNCHANGED <<selfF, selfData, selfL, opened>>
    /\ UNCHANGED <<driver, rvars, disk, lock, ret, pend, args, length, score_best,
                   batches, calls, lastUpd, submitted, fetched, pvars>>

\* The comparison that decides whether update replaces the record.
BetterLe(stored, cost) == stored <= cost
Better(stored, cost) == stored < cost

\* The table update leaves in self.data.
Updated(data, W, o, code, cost) ==
    IF ~Has(data, W, o) \/ Better(data[W][o].cost, cost)
    THEN Put(data, W, o, [cost |-> cost, code |-> code])
    ELSE data

\* update, after _get_data returned the table: the record of (W, objective)
\* is replaced when there is none or when its cost is lower.
Apply(p) ==
    /\ pc[p] = "u_apply"
    /\ LET a == args[p]
           W == Str(a.weight)
           new == Updated(selfData[p], W, a.objective, a.code, a.cost)
       IN /\ selfData' = Set(selfData, p, new)
          /\ lastUpd' = IF Searching THEN lastUpd
                         ELSE Set(lastUpd, p,
                 [n |-> Len(a.code), W |-> W, objective |-> a.objective,
                  rec |-> [cost |-> a.cost, code |-> a.code],
                  accepted |-> new # selfData[p],
                  committed |-> FALSE])
    /\ pc' = Set(pc, p, IF driver = "search" THEN "s_batch"
                         ELSE IF driver = "run" /\ strategy = "lyndon"
                         THEN "l_next"
                         ELSE IF driver = "run" THEN "r_next" ELSE "ready")
    /\ submitted' = IF driver = "search" /\ args[p].cost > submitted[Len(args[p].code)]
                    THEN [submitted EXCEPT ![Len(args[p].code)] = args[p].cost]
                    ELSE submitted
    /\ fetched' = NoFetch
    /\ UNCHANGED <<driver, rvars, disk, lock, ret, selfF, selfL, pend, leaked, exc, raised,
                   args, length, score_best, batches, calls, opened,
                   pvars>>

\* _close_file: f.seek(0); f.truncate().  seek writes out what the buffer
\* still holds of a dump that failed; truncate cuts the file to zero bytes.
Truncate(p) ==
    /\ pc[p] = "c_trunc"
    /\ disk' = [disk EXCEPT ![selfL[p]] = Empty]
    /\ pend' = Set(pend, p, "none")
    /\ pc' = Set(pc, p, "c_dump")
    /\ UNCHANGED <<driver, rvars, lock, ret, selfF, selfL, selfData, leaked, exc, raised,
                   args, length, score_best, batches, calls, opened, lastUpd, submitted,
                   fetched, pvars>>

\* _close_file: json.dump(data, f, indent=4) fills the buffer of f
Dump(p) ==
    /\ pc[p] = "c_dump"
    /\ pend' = Set(pend, p, "full")
    /\ pc' = Set(pc, p, "c_unlock")
    /\ UNCHANGED <<driver, rvars, disk, lock, ret, selfF, selfL, selfData, leaked,
                   exc, raised, args, length, score_best, batches, calls, opened,
                   lastUpd, submitted, fetched, pvars>>

\* _close_file: json.dump raises half way (a cost that is no JSON number,
\* such as a numpy.float32).  self.f stays set, and the file stays locked.
\* Inside __exit__ the exception leaves the with statement; inside _get_data
\* it leaves update.  The objective of a run returns scores json can write.
DumpFails(p) ==
    /\ driver # "run"
    /\ pc[p] = "c_dump"
    /\ pend' = Set(pend, p, "partial")
    /\ IF ret[p] = "g_isfile"
       THEN Raise(p, "json.dump")
       ELSE /\ pc' = Set(pc, p, IF Searching THEN "failed" ELSE "ready")
            /\ exc' = exc
            /\ raised' = First(p, "json.dump")
    /\ UNCHANGED <<driver, rvars, disk, lock, ret, selfF, selfL, selfData, leaked,
                   args, length, score_best, batches, calls, opened, lastUpd, submitted,
                   fetched, pvars>>

\* _close_file: fcntl.flock(f, fcntl.LOCK_UN)
Unlock(p) ==
    /\ pc[p] = "c_unlock"
    /\ lock' = [lock EXCEPT ![selfL[p]] = NoProc]
    /\ pc' = Set(pc, p, "c_close")
    /\ UNCHANGED <<driver, rvars, disk, ret, selfF, selfL, selfData, pend, leaked,
                   exc, raised, args, length, score_best, batches, calls, opened,
                   lastUpd, submitted, fetched, pvars>>

\* _close_file: f.close() writes the buffer to the file; self.f = None
Close(p) ==
    /\ pc[p] = "c_close"
    /\ LET n == selfL[p]
           after == WriteAtEnd(disk[n], selfData[p])
       IN /\ disk' = [disk EXCEPT ![n] = after]
          /\ lastUpd' = Set(lastUpd, p,
                 IF lastUpd[p].n = n /\ after = Json(selfData[p])
                 THEN [lastUpd[p] EXCEPT !.committed = TRUE]
                 ELSE lastUpd[p])
    /\ pend' = Set(pend, p, "none")
    /\ selfF' = Set(selfF, p, FALSE)
    /\ pc' = Set(pc, p, ret[p])
    /\ fetched' = NoFetch
    /\ UNCHANGED <<driver, rvars, lock, ret, selfL, selfData, leaked, exc, raised, args,
                   length, score_best, batches, calls, opened, submitted,
                   pvars>>

\* __exit__: self._close_file(), which returns at once when self.f is None
Exit(p) ==
    /\ pc[p] = "x_exit"
    /\ LET to == IF driver = "api" THEN "ready"
                 ELSE IF exc[p] THEN "failed" ELSE "done"
       IN IF selfF[p]
          THEN /\ pc' = Set(pc, p, "c_trunc")
               /\ ret' = Set(ret, p, to)
          ELSE /\ pc' = Set(pc, p, to)
               /\ ret' = ret
    /\ UNCHANGED <<driver, rvars, disk, lock, selfF, selfL, selfData, pend, leaked,
                   exc, raised, args, length, score_best, batches, calls, opened,
                   lastUpd, submitted, fetched, pvars>>

\* A file object nothing names any more is closed by the interpreter: the
\* one _get_data left locked when the container did not parse.
Collect(p) ==
    /\ pc[p] \in {"failed", "ready"}
    /\ \E n \in leaked[p] :
        /\ leaked' = Set(leaked, p, leaked[p] \ {n})
        /\ lock' = [lock EXCEPT ![n] = NoProc]
    /\ UNCHANGED <<driver, rvars, disk, pc, ret, selfF, selfL, selfData, pend, exc, raised,
                   args, length, score_best, batches, calls, opened, lastUpd, submitted,
                   fetched, pvars>>

\* The Archiver of a search that failed is dropped with the exception: its
\* file, still open after a failed dump, is closed, which writes the part of
\* the document the buffer holds.
CollectSelf(p) ==
    /\ pc[p] = "failed"
    /\ selfF[p]
    /\ disk' = [disk EXCEPT ![selfL[p]] =
                   IF pend[p] = "partial" THEN WritePartial(@) ELSE @]
    /\ lock' = [lock EXCEPT ![selfL[p]] = NoProc]
    /\ selfF' = Set(selfF, p, FALSE)
    /\ pend' = Set(pend, p, "none")
    /\ UNCHANGED <<driver, rvars, pc, ret, selfL, selfData, leaked, exc, raised, args,
                   length, score_best, batches, calls, opened, lastUpd, submitted,
                   fetched, pvars>>

\* The process is terminated: its buffers are lost, the operating system
\* closes its files and with them drops its locks.
Running(p) == pc[p] \notin {"idle", "done", "failed", "killed"}
Kill(p) ==
    /\ Searching
    /\ pass = 1
    /\ Running(p)
    /\ pc' = Set(pc, p, "killed")
    /\ lock' = [n \in DOMAIN lock |-> IF lock[n] = p THEN NoProc ELSE lock[n]]
    /\ pend' = Set(pend, p, "none")
    /\ leaked' = Set(leaked, p, {})
    /\ selfF' = Set(selfF, p, FALSE)
    /\ selfL' = Set(selfL, p, NoLen)
    /\ selfData' = Set(selfData, p, EmptyTbl)
    /\ opened' = Set(opened, p, EmptyTbl)
    /\ ret' = Set(ret, p, "done")
    /\ exc' = Set(exc, p, FALSE)
    /\ raised' = Set(raised, p, "none")
    /\ args' = Set(args, p, NoArgs)
    /\ length' = Set(length, p, NoLen)
    /\ score_best' = Set(score_best, p, NegInf)
    /\ batches' = Set(batches, p, 0)
    /\ UNCHANGED <<driver, rvars, disk, calls, lastUpd, submitted, fetched, pvars>>

\* (a fetch that settles for the record of any objective of the weight)
FetchResultLoose(content, W, o) ==
    IF /\ content.st = "json"
       /\ W \in DOMAIN content.tbl
       /\ DOMAIN content.tbl[W] # {}
    THEN [res |-> "found",
          rec |-> content.tbl[W][CHOOSE x \in DOMAIN content.tbl[W] : TRUE]]
    ELSE [res |-> "NotInCatalogError", rec |-> NoRec]
\* Archiver.fetch(L, objective_function, weight): reads the file without
\* taking its lock.
FetchResult(content, W, o) ==
    CASE content.st = "missing" ->
            [res |-> "NotInCatalogError", rec |-> NoRec]
      [] ~Parses(content) ->
            [res |-> "JSONDecodeError", rec |-> NoRec]
      [] Has(content.tbl, W, o) ->
            [res |-> "found", rec |-> content.tbl[W][o]]
      [] OTHER ->
            [res |-> "NotInCatalogError", rec |-> NoRec]

\* catalog.best(L, objective_function, weight): the 'code' of what fetch
\* returns; what fetch raises passes through.
BestResult(content, W, o) ==
    LET r == FetchResult(content, W, o) IN
    [res |-> r.res, code |-> r.rec.code]

Quiet == \A p \in Procs : pc[p] \in {"idle", "ready"}
Fetch(n, o, w) ==
    /\ driver = "api"
    /\ Quiet
    /\ LET r == FetchResult(disk[n], Str(w), o) IN
        fetched' = [n |-> n, W |-> Str(w), objective |-> o, res |-> r.res,
                    rec |-> r.rec]
    /\ UNCHANGED <<driver, rvars, disk, lock, pc, ret, selfF, selfL, selfData, pend,
                   leaked, exc, raised, args, length, score_best, batches, calls,
                   opened, lastUpd, submitted, pvars>>

\* ------------------------------------------------------------ the search
\* exhaustive, random, bracelet and necklace share this loop:
\*   with Archiver(output_dir=output_dir) as f:
\*       for length in range(K, L + 1):
\*           score_best = -np.inf
\*           for batch in ...:
\*               scores = objective_function(batch)
\*               best = np.argmax(scores)
\*               if scores[best] > score_best:
\*                   score_best = scores[best]; f.update(...)
Enter(p) ==
    /\ driver \in {"search", "api", "run", "orders"}
    /\ strategy \notin {"bfs", "lyndon"}
    /\ pc[p] = "idle"
    /\ pc' = Set(pc, p, IF driver = "search" THEN "s_len"
                         ELSE IF driver = "run" THEN "r_len" ELSE "ready")
    /\ UNCHANGED <<driver, rvars, disk, lock, ret, selfF, selfL, selfData, pend,
                   leaked, exc, raised, args, length, score_best, batches, calls,
                   opened, lastUpd, submitted, fetched, pvars>>

\* for length in range(K, L + 1); past L the with-block is left
NextLength(p) ==
    /\ pc[p] = "s_len"
    /\ LET next == IF length[p] = NoLen THEN MinLen ELSE length[p] + 1 IN
        IF next > MaxLen
        THEN /\ pc' = Set(pc, p, "x_exit")
             /\ UNCHANGED <<length, score_best, batches>>
        ELSE /\ length' = Set(length, p, next)
             /\ score_best' = Set(score_best, p, NegInf)
             /\ batches' = Set(batches, p, 0)
             /\ pc' = Set(pc, p, "s_batch")
    /\ UNCHANGED <<driver, rvars, disk, lock, ret, selfF, selfL, selfData, pend,
                   leaked, exc, raised, args, calls, opened, lastUpd, submitted, fetched,
                   pvars>>

\* One batch: the objective scores it, `code` is its arg-max and `s` the
\* score of that code.
ScoreBatch(p, code, s) ==
    /\ pc[p] = "s_batch"
    /\ batches[p] < MaxBatches
    /\ batches' = Set(batches, p, batches[p] + 1)
    /\ IF s > score_best[p]
       THEN /\ score_best' = Set(score_best, p, s)
            /\ args' = Set(args, p, [objective |-> ObjectiveOf(p), code |-> code,
                                     cost |-> s, weight |-> Weight(length[p])])
            /\ pc' = Set(pc, p, "u_get")
       ELSE UNCHANGED <<score_best, args, pc>>
    /\ UNCHANGED <<driver, rvars, disk, lock, ret, selfF, selfL, selfData, pend,
                   leaked, exc, raised, length, calls, opened, lastUpd, submitted, fetched,
                   pvars>>

\* The generator of the length is exhausted.
Exhausted(p) ==
    /\ pc[p] = "s_batch"
    /\ batches[p] >= 1
    /\ pc' = Set(pc, p, "s_len")
    /\ UNCHANGED <<driver, rvars, disk, lock, ret, selfF, selfL, selfData, pend,
                   leaked, exc, raised, args, length, score_best, batches, calls,
                   opened, lastUpd, submitted, fetched, pvars>>

\* objective_function(batch) raises.
ObjectiveFails(p) ==
    /\ pc[p] = "s_batch"
    /\ batches[p] < MaxBatches
    /\ exc' = Set(exc, p, TRUE)
    /\ raised' = First(p, "objective")
    /\ pc' = Set(pc, p, "x_exit")
    /\ UNCHANGED <<driver, rvars, disk, lock, ret, selfF, selfL, selfData, pend,
                   leaked, args, length, score_best, batches, calls, opened,
                   lastUpd, submitted, fetched, pvars>>

\* ------------------------------------ necklaces, bracelets, Lyndon words
\* Words over {0, 1} of length n with k ones, and their order.
Words01(n, k) ==
    {w \in [1..n -> {0, 1}] : Cardinality({i \in 1..n : w[i] = 1}) = k}
\* a < b in lexicographic order, where a proper prefix comes first
LexLess(a, b) ==
    \/ \E i \in 1..Len(a) :
          /\ i <= Len(b)
          /\ a[i] < b[i]
          /\ \A j \in 1..(i - 1) : a[j] = b[j]
    \/ /\ Len(a) < Len(b)
       /\ \A j \in 1..Len(a) : a[j] = b[j]
RECURSIVE SortLex(_)
SortLex(S) ==
    IF S = {} THEN << >>
    ELSE LET m == CHOOSE x \in S : \A y \in S \ {x} : LexLess(x, y)
         IN <<m>> \o SortLex(S \ {m})
Rev(w) == [i \in 1..Len(w) |-> w[Len(w) + 1 - i]]
\* A necklace is the least of its rotations; a Lyndon word is less than
\* every other rotation of itself, so it is an aperiodic necklace; a
\* bracelet is the least of its rotations and of those of its reversal.
IsNecklace(w) == \A i \in 1..(Len(w) - 1) : ~LexLess(Rot(w, i), w)
IsLyndonLoose(w) == IsNecklace(w)
IsLyndon(w) == \A i \in 1..(Len(w) - 1) : LexLess(w, Rot(w, i))
IsBracelet(w) ==
    /\ IsNecklace(w)
    /\ \A i \in 0..(Len(w) - 1) : ~LexLess(Rot(Rev(w), i), w)
\* sage.all.Necklaces([n - k, k]): the necklaces with n - k letters 1 and k
\* letters 2, in order.
Necklaces(n, k) ==
    LET N == SortLex({w \in Words01(n, k) : IsNecklace(w)})
    IN [i \in 1..Len(N) |-> [j \in 1..n |-> N[i][j] + 1]]
\* jeweler.bracelet.bracelet_fc(n, 2, [n - k, k]): the list of the bracelets
\* with n - k letters 0 and k letters 1.
bracelet_fc(n, k) == SortLex({w \in Words01(n, k) : IsBracelet(w)})
\* jeweler.lyndon.LengthLimitedLyndonWords(2, n, w): the Lyndon words over
\* {0, 1} of length 1..n in lexicographic order, from the word w on.
LengthLimitedLyndonWords(n, w) ==
    SortLex({x \in UNION {[1..m -> {0, 1}] : m \in 1..n} :
                IsLyndon(x) /\ ~LexLess(x, w)})

\* ------------------------------------------ one search, batch by batch
\* batch_size = max(1, batch_bits // length)
BatchSizeOver(bits, n) == bits \div n + 1
BatchSize(bits, n) == IF bits \div n > 1 THEN bits \div n ELSE 1

\* itertools.combinations(range(n), k): the k-subsets of 0..n-1 as sorted
\* tuples, in lexicographic order.
Prefix(x, seqs) == [i \in 1..Len(seqs) |-> <<x>> \o seqs[i]]
RECURSIVE Comb(_, _, _)
Comb(lo, n, k) ==
    IF k = 0 THEN << << >> >>
    ELSE IF lo > n - k THEN << >>
    ELSE Prefix(lo, Comb(lo + 1, n, k - 1)) \o Comb(lo + 1, n, k)
Combinations(n, k) == Comb(0, n, k)

\* row[list(c)] = 1 on a row of np.zeros
OneHot(c, n) ==
    [i \in 1..n |-> IF \E j \in 1..Len(c) : c[j] = i - 1 THEN 1 ELSE 0]

\* The codes of length n and weight int(n * density), as a set.
WeightCodes(n) ==
    {OneHot(Combinations(n, Weight(n))[i], n) :
        i \in 1..Len(Combinations(n, Weight(n)))}

\* (a generator that yields nothing of the rows it filled when the
\* combinations run out)
RECURSIVE FillRowsDrop(_, _, _, _, _)
FillRowsDrop(combos, pos, codes, batch_size, n) ==
    IF Len(codes) = batch_size
    THEN [codes |-> codes, pos |-> pos, stop |-> FALSE]
    ELSE IF pos = Len(combos)
    THEN [codes |-> << >>, pos |-> pos, stop |-> TRUE]
    ELSE FillRowsDrop(combos, pos + 1,
                      Append(codes, OneHot(combos[pos + 1], n)), batch_size, n)
\* _exhaustive_batch from one yield to the next: the rows of codes are
\* filled from next(combinations); a full codes is yielded, and when
\* StopIteration comes first codes[:count] is, after which the generator
\* returns.  pos counts the combinations taken.
RECURSIVE FillRows(_, _, _, _, _)
FillRows(combos, pos, codes, batch_size, n) ==
    IF Len(codes) = batch_size
    THEN [codes |-> codes, pos |-> pos, stop |-> FALSE]
    ELSE IF pos = Len(combos)
    THEN [codes |-> codes, pos |-> pos, stop |-> TRUE]
    ELSE FillRows(combos, pos + 1,
                  Append(codes, OneHot(combos[pos + 1], n)), batch_size, n)

\* chunk - 1: the words over {1, 2} become codes over {0, 1}
MinusOne(chunk) ==
    [i \in 1..Len(chunk) |-> [j \in 1..Len(chunk[i]) |-> chunk[i][j] - 1]]

\* _necklace_chunk from one yield to the next: chunk[i] = x; i += 1; the
\* chunk is yielded when i >= chunksize[0], and chunk[:i] when the words run
\* out with i < chunksize[0].
RECURSIVE FillChunk(_, _, _, _)
FillChunk(words, pos, chunk, size) ==
    IF pos = Len(words)
    THEN [codes |-> MinusOne(chunk), pos |-> pos, stop |-> TRUE,
          yields |-> Len(chunk) < size]
    ELSE LET filled == Append(chunk, words[pos + 1]) IN
         IF Len(filled) >= size
         THEN [codes |-> MinusOne(filled), pos |-> pos + 1, stop |-> FALSE,
               yields |-> TRUE]
         ELSE FillChunk(words, pos + 1, filled, size)

\* scores = objective_function(batch)
Scores(b) == [i \in 1..Len(b) |-> objective_function[b[i]]]
\* np.argmax(scores): the first index of the maximum, and the first index
\* of a nan when there is one
ArgMaxLast(scores) ==
    CHOOSE i \in 1..Len(scores) :
        /\ \A j \in 1..Len(scores) : scores[j] <= scores[i]
        /\ \A j \in (i + 1)..Len(scores) : scores[j] < scores[i]
ArgMax(scores) ==
    IF \E i \in 1..Len(scores) : scores[i] = NaN
    THEN CHOOSE i \in 1..Len(scores) :
            /\ scores[i] = NaN
            /\ \A j \in 1..(i - 1) : scores[j] # NaN
    ELSE CHOOSE i \in 1..Len(scores) :
            /\ \A j \in 1..Len(scores) : scores[j] <= scores[i]
            /\ \A j \in 1..(i - 1) : scores[j] < scores[i]

\* for length in range(K, L + 1): weight, score_best = -np.inf, batch_size
\* and a new generator; past L the with-block is left.
\* The loop of exhaustive takes the next length, sets code_best and
\* score_best, and computes number_of_batches = 1 + (factorial(length) //
\* (factorial(weight) * factorial(length - weight))) // batch_size:
\* math.factorial raises ValueError on a negative number.
RangeNext(p) == IF length[p] = NoLen THEN K ELSE length[p] + 1
FactorialFails(p) ==
    /\ driver = "run"
    /\ strategy = "exhaustive"
    /\ pc[p] = "r_len"
    /\ RangeNext(p) <= L
    /\ Weight(RangeNext(p)) > RangeNext(p)
    /\ length' = Set(length, p, RangeNext(p))
    /\ code_best' = << >>
    /\ score_best' = Set(score_best, p, NegInf)
    /\ batches' = Set(batches, p, 0)
    /\ gen_pos' = 0
    /\ gen_done' = FALSE
    /\ batch' = << >>
    /\ scored' = << >>
    /\ Raise(p, "factorial")
    /\ UNCHANGED <<driver, strategy, K, L, batch_bits, objective_function, pass,
                   disk0, necklaces, chunksize, score_bests, density, disk, lock,
                   ret, selfF, selfL, selfData, pend, leaked, args, calls,
                   opened, lastUpd, submitted, fetched, pvars,
                   arg, result>>

\* rng.choice(L, k, replace=False) raises ValueError when k is above L, on
\* the first next() of _random_batch.
ChoiceFails(p) ==
    /\ driver = "run"
    /\ strategy = "random"
    /\ pc[p] = "r_next"
    /\ Weight(length[p]) > length[p]
    /\ Raise(p, "choice")
    /\ UNCHANGED <<driver, rvars, disk, lock, ret, selfF, selfL, selfData, pend,
                   leaked, args, length, score_best, batches, calls, opened,
                   lastUpd, submitted, fetched, pvars>>

RLen(p) ==
    /\ driver = "run"
    /\ pc[p] = "r_len"
    /\ ~(/\ strategy = "exhaustive"
         /\ RangeNext(p) <= L
         /\ Weight(RangeNext(p)) > RangeNext(p))
    /\ LET next == IF length[p] = NoLen THEN K ELSE length[p] + 1 IN
        IF next > L
        THEN /\ pc' = Set(pc, p, "x_exit")
             /\ UNCHANGED <<length, score_best, batches, gen_pos, gen_done,
                            batch, code_best, scored>>
        ELSE /\ length' = Set(length, p, next)
             /\ code_best' = << >>
             /\ score_best' = Set(score_best, p, NegInf)
             /\ batches' = Set(batches, p, 0)
             /\ gen_pos' = 0
             /\ gen_done' = FALSE
             /\ batch' = << >>
             /\ scored' = << >>
             /\ pc' = Set(pc, p, "r_next")
    /\ UNCHANGED <<driver, strategy, K, L, batch_bits, objective_function, pass,
                   disk0, necklaces, chunksize, score_bests, density,
                   disk, lock, ret, selfF, selfL,
                   selfData, pend, leaked, exc, raised, args, calls, opened,
                   lastUpd, submitted, fetched, pvars,
                   arg, result>>

\* for batch in _exhaustive_batch(batch_size, length, weight)
ExhaustiveYield(p) ==
    /\ driver = "run"
    /\ strategy = "exhaustive"
    /\ pc[p] = "r_next"
    /\ ~gen_done
    /\ LET n == length[p]
           y == FillRows(Combinations(n, Weight(n)), gen_pos, << >>,
                         BatchSize(batch_bits, n), n)
       IN /\ batch' = y.codes
          /\ gen_pos' = y.pos
          /\ gen_done' = y.stop
          /\ scored' = Append(scored, y.codes)
    /\ pc' = Set(pc, p, "r_score")
    /\ UNCHANGED <<driver, strategy, K, L, batch_bits, objective_function, pass,
                   code_best, disk0, necklaces, chunksize, score_bests, density,
                   disk, lock, ret,
                   selfF, selfL, selfData, pend, leaked, exc, raised, args,
                   length, score_best, batches, calls, opened, lastUpd,
                   submitted, fetched, pvars,
                   arg, result>>

\* for batch in _random_batch(batch_size, length, weight): every row is a
\* code of rng.choice(L, k, replace=False), and the generator never returns
\* (while True). scored keeps the last MaxBatches batches.
RandomYield(p, b) ==
    /\ driver = "run"
    /\ strategy = "random"
    /\ pc[p] = "r_next"
    /\ batch' = b
    /\ scored' = IF Len(scored) < MaxBatches THEN Append(scored, b)
                 ELSE Append(Tail(scored), b)
    /\ pc' = Set(pc, p, "r_score")
    /\ UNCHANGED <<driver, strategy, K, L, batch_bits, objective_function,
                   gen_pos, gen_done, pass, code_best, disk0, necklaces, chunksize, score_bests, density,
                   disk,
                   lock, ret,
                   selfF, selfL, selfData, pend, leaked, exc, raised, args,
                   length, score_best, batches, calls, opened, lastUpd,
                   submitted, fetched, pvars,
                   arg, result>>

\* The generator returned: the for loop of the length ends.
RStop(p) ==
    /\ driver = "run"
    /\ strategy = "exhaustive"
    /\ pc[p] = "r_next"
    /\ gen_done
    /\ pc' = Set(pc, p, "r_len")
    /\ UNCHANGED <<driver, rvars, disk, lock, ret, selfF, selfL, selfData, pend,
                   leaked, exc, raised, args, length, score_best, batches, calls,
                   opened, lastUpd, submitted, fetched, pvars>>

\* scores = objective_function(batch); best = np.argmax(scores), which raises
\* ValueError on a batch without rows; if scores[best] > score_best: update.
CountUp(n) == IF strategy = "random" /\ n >= MaxBatches THEN n ELSE n + 1
RScore(p) ==
    /\ driver = "run"
    /\ pc[p] = "r_score"
    /\ IF batch = << >>
       THEN /\ Raise(p, "argmax")
            /\ UNCHANGED <<score_best, code_best, args, batches>>
       ELSE /\ batches' = Set(batches, p, CountUp(batches[p]))
            /\ LET scores == Scores(batch)
                   best == ArgMax(scores)
               IN IF Gt(scores[best], score_best[p])
                  THEN /\ score_best' = Set(score_best, p, scores[best])
                       /\ code_best' = batch[best]
                       /\ args' = Set(args, p,
                              [objective |-> ObjectiveOf(p), code |-> batch[best],
                               cost |-> scores[best],
                               weight |-> Weight(length[p])])
                       /\ pc' = Set(pc, p, "u_get")
                  ELSE /\ pc' = Set(pc, p, "r_next")
                       /\ UNCHANGED <<score_best, code_best, args>>
            /\ UNCHANGED <<exc, raised>>
    /\ UNCHANGED <<driver, strategy, K, L, batch_bits, objective_function,
                   gen_pos, gen_done, batch, scored, pass, disk0, necklaces,
                   chunksize, score_bests, density,
                   disk, lock, ret, selfF, selfL, selfData, pend,
                   leaked, length, calls, opened, lastUpd, submitted, fetched,
                   pvars,
                   arg, result>>

\* The search that was killed or failed is started again, with the same
\* arguments, once the process of the first call is gone.
Rerun(p) ==
    /\ driver = "run"
    /\ strategy = "exhaustive"
    /\ pass = 1
    /\ pc[p] \in {"killed", "failed"}
    /\ ~selfF[p]
    /\ leaked[p] = {}
    /\ pass' = 2
    /\ pc' = Set(pc, p, "idle")
    /\ selfL' = Set(selfL, p, NoLen)
    /\ selfData' = Set(selfData, p, EmptyTbl)
    /\ opened' = Set(opened, p, EmptyTbl)
    /\ ret' = Set(ret, p, "done")
    /\ exc' = Set(exc, p, FALSE)
    /\ raised' = Set(raised, p, "none")
    /\ args' = Set(args, p, NoArgs)
    /\ length' = Set(length, p, NoLen)
    /\ score_best' = Set(score_best, p, NegInf)
    /\ batches' = Set(batches, p, 0)
    /\ gen_pos' = 0
    /\ gen_done' = FALSE
    /\ batch' = << >>
    /\ code_best' = << >>
    /\ scored' = << >>
    /\ UNCHANGED <<driver, strategy, K, L, batch_bits, objective_function,
                   disk0, necklaces, chunksize, score_bests, density,
                   disk, lock, selfF, pend, leaked,
                   calls, lastUpd, submitted, fetched, pvars,
                   arg, result>>

\* range(ncodes // batch_size + 1)
NumBatchesFloor(ncodes, batch_size) == ncodes \div batch_size
NumBatches(ncodes, batch_size) == ncodes \div batch_size + 1

\* necklace: codes = Necklaces([L - k, k]); ncodes = codes.cardinality();
\* chunks = _necklace_chunk(codes, (batch_size, L)); then
\* for _ in range(ncodes // batch_size + 1): batch = next(chunks).
\* The generator yields ncodes // batch_size full chunks and then chunk[:i],
\* which has no row when ncodes is a multiple of batch_size.
NecklaceYield(p) ==
    /\ driver = "run"
    /\ strategy = "necklace"
    /\ pc[p] = "r_next"
    /\ LET n == length[p]
           codes == Necklaces(n, Weight(n))
           y == FillChunk(codes, gen_pos, << >>, chunksize)
       IN /\ batches[p] < NumBatches(Len(codes), chunksize)
          /\ ~gen_done
          /\ batch' = y.codes
          /\ gen_pos' = y.pos
          /\ gen_done' = y.stop
          /\ scored' = Append(scored, y.codes)
    /\ pc' = Set(pc, p, "r_score")
    /\ UNCHANGED <<driver, strategy, K, L, batch_bits, objective_function, pass,
                   code_best, disk0, necklaces, chunksize, score_bests, density,
                   disk, lock, ret,
                   selfF, selfL, selfData, pend, leaked, exc, raised, args,
                   length, score_best, batches, calls, opened, lastUpd,
                   submitted, fetched, pvars,
                   arg, result>>

\* bracelet: codes = bracelet_fc(L, 2, [L - k, k]); then
\* for _ in range(len(codes) // batch_size + 1):
\*     batch = codes[-batch_size:]; del codes[-batch_size:]
\* gen_pos counts the codes deleted from the end of the list.
BraceletYield(p) ==
    /\ driver = "run"
    /\ strategy = "bracelet"
    /\ pc[p] = "r_next"
    /\ LET n == length[p]
           codes == bracelet_fc(n, Weight(n))
           left == Len(codes) - gen_pos
           from == IF left > chunksize THEN left - chunksize + 1 ELSE 1
           slice == SubSeq(codes, from, left)
       IN /\ batches[p] < NumBatches(Len(codes), chunksize)
          /\ batch' = slice
          /\ gen_pos' = gen_pos + Len(slice)
          /\ scored' = Append(scored, slice)
    /\ pc' = Set(pc, p, "r_score")
    /\ UNCHANGED <<driver, strategy, K, L, batch_bits, objective_function,
                   gen_done, pass, code_best, disk0, necklaces, chunksize, score_bests, density,
                   disk,
                   lock, ret, selfF, selfL, selfData, pend, leaked, exc, raised,
                   args, length, score_best, batches, calls, opened, lastUpd,
                   submitted, fetched, pvars,
                   arg, result>>

\* The range of the loop of necklace or bracelet is used up.
RangeStop(p) ==
    /\ driver = "run"
    /\ strategy \in {"necklace", "bracelet"}
    /\ pc[p] = "r_next"
    /\ LET n == length[p]
           ncodes == IF strategy = "necklace"
                     THEN Len(Necklaces(n, Weight(n)))
                     ELSE Len(bracelet_fc(n, Weight(n)))
       IN batches[p] >= NumBatches(ncodes, chunksize)
    /\ pc' = Set(pc, p, "r_len")
    /\ UNCHANGED <<driver, rvars, disk, lock, ret, selfF, selfL, selfData, pend,
                   leaked, exc, raised, args, length, score_best, batches, calls,
                   opened, lastUpd, submitted, fetched, pvars>>

\* lyndon: score_best = np.full(L + 1, -np.inf); num_allowed_ones[n] =
\* int(n * density); w = [0] * (L - k) + [1] * k; with Archiver(...) as f.
LyndonStartLast(n) == [i \in 1..n |-> IF i = 1 THEN 0 ELSE 1]
LyndonStart(n) == [i \in 1..n |-> IF i > n - Weight(n) THEN 1 ELSE 0]
LyndonEnter(p) ==
    /\ driver = "run"
    /\ strategy = "lyndon"
    /\ pc[p] = "idle"
    /\ score_bests' = [i \in 1..(L + 1) |-> NegInf]
    /\ pc' = Set(pc, p, "l_next")
    /\ UNCHANGED <<driver, strategy, K, L, batch_bits, objective_function,
                   gen_pos, gen_done, batch, code_best, scored, pass, disk0,
                   necklaces, chunksize, density, disk, lock, ret, selfF, selfL,
                   selfData, pend, leaked, exc, raised, args, length,
                   score_best, batches, calls, opened, lastUpd, submitted,
                   fetched, pvars,
                   arg, result>>

\* for code in LengthLimitedLyndonWords(2, L, w): a word of K <= length
\* with num_allowed_ones[len(code)] ones is scored, and passed to update
\* when its score is above score_best[len(code)]; after the last word the
\* with-block is left.
AnyWeight(code) == TRUE
HasWeight(code) ==
    Cardinality({i \in 1..Len(code) : code[i] = 1}) = Weight(Len(code))
LyndonNext(p) ==
    /\ driver = "run"
    /\ strategy = "lyndon"
    /\ pc[p] = "l_next"
    /\ LET words == LengthLimitedLyndonWords(L, LyndonStart(L)) IN
        IF gen_pos = Len(words)
        THEN /\ pc' = Set(pc, p, "x_exit")
             /\ UNCHANGED <<gen_pos, batch, scored, batches, score_bests,
                            args, length>>
        ELSE LET code == words[gen_pos + 1] IN
             /\ gen_pos' = gen_pos + 1
             /\ IF Len(code) >= K /\ HasWeight(code)
                THEN /\ batch' = <<code>>
                     /\ scored' = Append(scored, <<code>>)
                     /\ batches' = Set(batches, p, batches[p] + 1)
                     /\ length' = Set(length, p, Len(code))
                     /\ LET score == objective_function[code] IN
                         IF Gt(score, score_bests[Len(code) + 1])
                         THEN /\ score_bests' =
                                    [score_bests EXCEPT ![Len(code) + 1] = score]
                              /\ args' = Set(args, p,
                                    [objective |-> ObjectiveOf(p), code |-> code,
                                     cost |-> score,
                                     weight |-> Weight(Len(code))])
                              /\ pc' = Set(pc, p, "u_get")
                         ELSE /\ pc' = pc
                              /\ UNCHANGED <<score_bests, args>>
                ELSE /\ pc' = pc
                     /\ UNCHANGED <<batch, scored, batches, score_bests, args,
                                    length>>
    /\ UNCHANGED <<driver, strategy, K, L, batch_bits, objective_function,
                   gen_done, pass, code_best, disk0, necklaces, chunksize,
                   density, disk,
                   lock, ret, selfF, selfL, selfData, pend, leaked, exc, raised,
                   score_best, calls, opened, lastUpd, submitted, fetched,
                   pvars,
                   arg, result>>

\* The older bfs(L, density, batch_size, filename=None), which keeps no
\* archive: k, code_generator, num_codes_in_batch = max(batch_size // L, 1),
\* num_batches = ceil(num_combinations / num_codes_in_batch), code_best = None,
\* score_best = -np.inf.  batch_bits stands for its batch_size.
CeilDiv(a, b) == (a + b - 1) \div b
BfsEnter(p) ==
    /\ driver = "run"
    /\ strategy = "bfs"
    /\ pc[p] = "idle"
    /\ length' = Set(length, p, L)
    /\ pc' = Set(pc, p, "b_loop")
    /\ UNCHANGED <<driver, rvars, disk, lock, ret, selfF, selfL, selfData, pend,
                   leaked, exc, raised, args, score_best, batches, calls,
                   opened, lastUpd, submitted, fetched, pvars>>

\* One turn of for i in range(0, num_batches): indices = list(islice(
\* code_generator, num_codes_in_batch)); break when there are none; the
\* codes of the indices are scored and the running best is kept.
BfsBatch(p) ==
    /\ driver = "run"
    /\ strategy = "bfs"
    /\ pc[p] = "b_loop"
    /\ LET combos == Combinations(L, Weight(L))
           size == BatchSize(batch_bits, L)
           upto == IF gen_pos + size < Len(combos) THEN gen_pos + size
                   ELSE Len(combos)
           codes == [i \in 1..(upto - gen_pos) |-> OneHot(combos[gen_pos + i], L)]
       IN IF batches[p] >= CeilDiv(Len(combos), size) \/ codes = << >>
          THEN /\ pc' = Set(pc, p, "done")
               /\ UNCHANGED <<gen_pos, batch, scored, batches, score_best,
                              code_best>>
          ELSE /\ gen_pos' = upto
               /\ batch' = codes
               /\ scored' = Append(scored, codes)
               /\ batches' = Set(batches, p, batches[p] + 1)
               /\ LET score == Scores(codes)
                      best == ArgMax(score)
                  IN IF Gt(score[best], score_best[p])
                     THEN /\ code_best' = codes[best]
                          /\ score_best' = Set(score_best, p, score[best])
                     ELSE UNCHANGED <<code_best, score_best>>
               /\ pc' = pc
    /\ UNCHANGED <<driver, strategy, K, L, batch_bits, objective_function,
                   gen_done, pass, disk0, necklaces, chunksize, score_bests, density,
                   disk, lock, ret,
                   selfF, selfL, selfData, pend, leaked, exc, raised, args,
                   length, calls, opened, lastUpd, submitted, fetched, pvars,
                   arg, result>>

\* next(chunks) on _necklace_chunk(necklaces, (chunksize, n))
ChunkYield ==
    /\ driver = "chunks"
    /\ ~gen_done
    /\ LET y == FillChunk(necklaces, gen_pos, << >>, chunksize) IN
        /\ batch' = y.codes
        /\ gen_pos' = y.pos
        /\ gen_done' = y.stop
        /\ scored' = IF y.yields THEN Append(scored, y.codes) ELSE scored
    /\ UNCHANGED <<driver, strategy, K, L, batch_bits, objective_function, pass,
                   code_best, disk0, necklaces, chunksize, score_bests, density,
                   avars, pvars,
                   arg, result>>

\* The arguments of a run, and the iterables given to _necklace_chunk.
BitBudgets == {b * MinLen : b \in 0..MaxBatchSize}
RunCodes(lo, hi) == UNION {WeightCodes(n) : n \in lo..hi}
WordList(n) ==
    [i \in 1..Len(Combinations(n, Weight(n))) |->
        [j \in 1..n |-> OneHot(Combinations(n, Weight(n))[i], n)[j] + 1]]
WordLists ==
    {SubSeq(WordList(x[1]), 1, x[2]) :
        x \in {y \in Lengths \X (1..MaxWords) : y[2] <= Len(WordList(y[1]))}}

\* --------------------------------------------------- a client of the API
ApiWeights == {Weight(n) : n \in Lengths}

\* f.update(objective_function, best_code, objective_cost, weight)
ApiUpdate(p, o, code, c, w) ==
    /\ driver = "api"
    /\ pc[p] = "ready"
    /\ calls[p] < MaxCalls
    /\ calls' = Set(calls, p, calls[p] + 1)
    /\ args' = Set(args, p, [objective |-> o, code |-> code, cost |-> c,
                             weight |-> w])
    /\ pc' = Set(pc, p, "u_get")
    /\ UNCHANGED <<driver, rvars, disk, lock, ret, selfF, selfL, selfData, pend,
                   leaked, exc, raised, length, score_best, batches, opened, lastUpd, submitted,
                   fetched, pvars>>

\* The with-block of the client ends: __exit__.
ApiExit(p) ==
    /\ driver = "api"
    /\ pc[p] = "ready"
    /\ pc' = Set(pc, p, "x_exit")
    /\ UNCHANGED <<driver, rvars, disk, lock, ret, selfF, selfL, selfData, pend,
                   leaked, exc, raised, args, length, score_best, batches, calls,
                   opened, lastUpd, submitted, fetched, pvars>>

ArchiverStep(p) ==
    \/ GetData(p) \/ IsFile(p) \/ CreateOpen(p) \/ CreateWrite(p)
    \/ Flock(p) \/ Load(p) \/ Apply(p)
    \/ Truncate(p) \/ Dump(p) \/ DumpFails(p) \/ Unlock(p) \/ Close(p)
    \/ Exit(p) \/ Collect(p)

SearchStep(p) ==
    \/ Enter(p) \/ NextLength(p) \/ Exhausted(p) \/ ObjectiveFails(p)
    \/ \E s \in Costs : \E code \in Candidates(length[p]) :
           ScoreBatch(p, code, s)
    \/ CollectSelf(p) \/ Kill(p)

Next ==
    \E p \in Procs : ArchiverStep(p) \/ SearchStep(p)

Spec == Init /\ [][Next]_vars

\* -------------------------------------------------------- ArchiverPandas
\* One ArchiverPandas(output_dir, L) for the length PLen, used by the client.
\* A row of the table: search, objective, code, cost, weight, progress.
\* Costs are counted in units of 1e-7, so that rounding to 6 decimals shows.
PLen == MaxLen
Searches == {"necklace", "lyndon"}
PCosts == {10 * c : c \in Costs} \cup {10 * MaxCost + 2}
PObjectives == {"f"}
PCodes == {Rot(FirstCode(PLen), i) : i \in 0..MaxCands}
PJson(rows) == [st |-> "json", rows |-> rows]
Row(sm, o, code, c, w, g) ==
    [search |-> sm, objective |-> o, code |-> code, cost |-> c, weight |-> w,
     progress |-> g]

\* DataFrame.round({"cost": 6}) on costs counted in units of 1e-7
Round6(c) == 10 * ((c + 5) \div 10)
RoundCost(rows) == [i \in 1..Len(rows) |-> [rows[i] EXCEPT !.cost = Round6(@)]]

\* drop_duplicates(subset=[...], keep='last'): a row stays when no later row
\* agrees with it on the columns of the subset.
\* (a table that is never cleaned of duplicates)
KeepAll(r1, r2) == FALSE
SameSubset(r1, r2) ==
    /\ r1.objective = r2.objective
    /\ r1.weight = r2.weight
    /\ r1.progress = r2.progress
RECURSIVE DropDuplicates(_)
DropDuplicates(rows) ==
    IF rows = << >> THEN << >>
    ELSE IF \E j \in 2..Len(rows) : SameSubset(rows[1], rows[j])
         THEN DropDuplicates(Tail(rows))
         ELSE <<rows[1]>> \o DropDuplicates(Tail(rows))

\* __dump__: the table of the file (when there is one) with self.table
\* appended, costs rounded, duplicates dropped; written to the file and kept
\* as self.table.
Dumped(file, table) ==
    DropDuplicates(RoundCost(
        IF file.st = "missing" THEN table ELSE file.rows \o table))

\* The rows of a triple, and the first row of the highest cost among them
\* (table.loc[table['cost'].idxmax()]).
OfTriple(rows, sm, o, w) ==
    SelectSeq(rows, LAMBDA r : r.objective = o /\ r.weight = w /\ r.search = sm)
\* (the first row of the lowest cost)
RECURSIVE IdxMin(_)
IdxMin(rows) ==
    IF Len(rows) = 1 THEN rows[1]
    ELSE LET m == IdxMin(Tail(rows)) IN
         IF rows[1].cost <= m.cost THEN rows[1] ELSE m
RECURSIVE IdxMax(_)
IdxMax(rows) ==
    IF Len(rows) = 1 THEN rows[1]
    ELSE LET m == IdxMax(Tail(rows)) IN
         IF rows[1].cost >= m.cost THEN rows[1] ELSE m

\* __enter__: best_cost = -np.inf; _needs_dump = False
PEnter ==
    /\ driver = "pandas"
    /\ pc[Client] = "idle"
    /\ pc' = Set(pc, Client, "ready")
    /\ pbest' = NegInf
    /\ pneeds' = FALSE
    /\ UNCHANGED <<driver, rvars, disk, lock, ret, selfF, selfL, selfData, pend,
                   leaked, exc, raised, args, length, score_best, batches, calls,
                   opened, lastUpd, submitted, fetched, ptable, pfile, pres,
                   plast, pseen, pmono>>

\* Every row the container and the table hold, and the highest progress
\* among them (0 without rows): what earlier update calls passed.
AllRows(file, table) ==
    IF file.st = "missing" THEN table ELSE file.rows \o table
RECURSIVE MaxProgressOf(_)
MaxProgressOf(rows) ==
    IF rows = << >> THEN 0
    ELSE LET m == MaxProgressOf(Tail(rows)) IN
         IF rows[1].progress > m THEN rows[1].progress ELSE m
\* The strategy whose fetches pseen follows.
SeenSearch == "necklace"

\* The row update appends when the cost beats best_cost.
Recorded(cost, best) == cost > best

\* update(search_method, objective_function, best_code, objective_cost,
\* weight, progress); `late` says that more than 1860 s passed since the
\* last write, in which case a table that needs it is dumped.
PUpdate(sm, o, code, c, w, g, late) ==
    /\ driver = "pandas"
    /\ pc[Client] = "ready"
    /\ calls[Client] < MaxCalls
    /\ calls' = Set(calls, Client, calls[Client] + 1)
    /\ LET rec == Recorded(c, pbest)
           table == IF rec THEN Append(ptable, Row(sm, o, code, c, w, g))
                    ELSE ptable
           needs == pneeds \/ rec
           dump == needs /\ late
           seen == OfTriple(RoundCost(IF pfile.st = "missing" THEN ptable
                                      ELSE pfile.rows \o ptable), sm, o, w)
       IN /\ ptable' = IF dump THEN Dumped(pfile, table) ELSE table
          /\ pfile' = IF dump THEN PJson(Dumped(pfile, table)) ELSE pfile
          /\ pneeds' = IF dump THEN FALSE ELSE needs
          /\ plast' = [search |-> sm, objective |-> o, code |-> code,
                       cost |-> c, weight |-> w, progress |-> g,
                       appended |-> rec,
                       top |-> \A i \in 1..Len(seen) : seen[i].cost < Round6(c),
                       dumped |-> dump]
    /\ pres' = PNoRes
    /\ pmono' = (pmono /\ g >= MaxProgressOf(AllRows(pfile, ptable)))
    /\ UNCHANGED <<driver, rvars, disk, lock, pc, ret, selfF, selfL, selfData, pend,
                   leaked, exc, raised, args, length, score_best, batches, opened,
                   lastUpd, submitted, fetched, pbest, pseen>>

\* __exit__: self.__dump__()
PDump ==
    /\ driver = "pandas"
    /\ pc[Client] = "ready"
    /\ ptable' = Dumped(pfile, ptable)
    /\ pfile' = PJson(Dumped(pfile, ptable))
    /\ pneeds' = FALSE
    /\ plast' = [plast EXCEPT !.dumped = TRUE]
    /\ pres' = PNoRes
    /\ UNCHANGED <<driver, rvars, disk, lock, pc, ret, selfF, selfL, selfData, pend,
                   leaked, exc, raised, args, length, score_best, batches, calls,
                   opened, lastUpd, submitted, fetched, pbest, pseen, pmono>>

\* fetch(search_method, objective_function, weight): the row of the triple
\* with the highest cost, whose cost becomes best_cost; without a file or
\* without such a row (None, -np.inf, 0).
PFetchResult(file, sm, o, w) ==
    LET rows == IF file.st = "missing" THEN << >>
                ELSE OfTriple(file.rows, sm, o, w)
    IN IF rows = << >>
       THEN [search |-> sm, objective |-> o, weight |-> w, res |-> "sentinel",
             code |-> << >>, cost |-> NegInf, progress |-> 0]
       ELSE LET best == IdxMax(rows) IN
            [search |-> sm, objective |-> o, weight |-> w, res |-> "found",
             code |-> best.code, cost |-> best.cost,
             progress |-> best.progress]

PFetch(sm, o, w) ==
    /\ driver = "pandas"
    /\ pc[Client] = "ready"
    /\ LET r == PFetchResult(pfile, sm, o, w) IN
        /\ pres' = r
        /\ pbest' = IF r.res = "found" THEN r.cost ELSE pbest
        /\ pseen' = IF sm = SeenSearch /\ r.progress > pseen THEN r.progress
                     ELSE pseen
    /\ UNCHANGED <<driver, rvars, disk, lock, pc, ret, selfF, selfL, selfData, pend,
                   leaked, exc, raised, args, length, score_best, batches, calls,
                   opened, lastUpd, submitted, fetched, ptable, pneeds, pfile,
                   plast, pmono>>

\* ----------------------------------------------- the API specification
\* One client drives an Archiver or an ArchiverPandas through its methods.
ApiCodes == UNION {{Rot(FirstCode(n), i) : i \in 0..MaxCands} : n \in Lengths}
ApiContents(n) ==
    {Missing, Empty,
     Json(Put(EmptyTbl, Str(Weight(n)), "f", [cost |-> 1, code |-> FirstCode(n)]))}
PInitFiles ==
    {PMissing} \cup
    {PJson(<<Row("necklace", "f", FirstCode(PLen), 10 * c, Weight(PLen), 1)>>) :
        c \in Costs}

InitApi ==
    /\ driver \in {"api", "pandas"}
    /\ InitNoRun
    /\ disk \in [Lengths -> UNION {ApiContents(n) : n \in Lengths}]
    /\ \A n \in Lengths :
          disk[n] \in IF driver = "api" THEN ApiContents(n) ELSE {Missing}
    /\ pfile \in IF driver = "pandas" THEN PInitFiles ELSE {PMissing}
    /\ InitArchiver
    /\ InitPandas

ApiStep(p) ==
    \/ Enter(p) \/ ApiExit(p)
    \/ \E o \in Objectives : \E code \in ApiCodes : \E c \in Costs :
           \E w \in ApiWeights : ApiUpdate(p, o, code, c, w)

PandasStep ==
    \/ PEnter \/ PDump
    \/ \E sm \in Searches : \E o \in PObjectives : \E w \in {Weight(PLen)} :
         \/ PFetch(sm, o, w)
         \/ \E code \in PCodes : \E c \in PCosts : \E g \in 0..MaxProgress :
                \E late \in BOOLEAN : PUpdate(sm, o, code, c, w, g, late)

NextApi ==
    \/ ArchiverStep(Client) \/ ApiStep(Client)
    \/ \E n \in Lengths : \E o \in Objectives : \E w \in ApiWeights : Fetch(n, o, w)
    \/ PandasStep

SpecApi == InitApi /\ [][NextApi]_vars

\* ------------------------------------------------- one call of a search
\* range(K, L + 1) of a call: one length, or the two shortest.
RunSpans ==
    {<<n, n>> : n \in Lengths} \cup
    {<<n, n + 1>> : n \in {m \in {MinLen} : m + 1 \in Lengths}}

\* The container an ArchiverPandas of an earlier search left in output_dir
\* for the length PLen, with progress recorded for the triple of the run.
\* It is the file PLen.json of the Archiver too, which json.load reads as
\* an object without a key of a weight.
RunFile ==
    PJson(<<Row("exhaustive", "f", FirstCode(PLen), 10, Weight(PLen),
                MaxProgress + 1)>>)

\* The scores an objective can return that are no finite number.
NonFinite == {NaN, PosInf, NegInf}

\* The words of zeros and ones of lengths 1..n.
BinaryWords(n) == UNION {[1..m -> {0, 1}] : m \in 1..n}

\* The calls of necklace, bracelet and lyndon: one length (lyndon also with
\* K one below L), a batch size in candidates, one objective, no container.
GenCalls ==
    {[strategy |-> st, K |-> n, L |-> n, size |-> b] :
        st \in {"necklace", "bracelet"}, n \in GenLengths, b \in 1..MaxBatchSize}
    \cup {[strategy |-> "necklace", K |-> MinLen, L |-> MinLen + 1, size |-> b] :
        b \in 1..MaxBatchSize}
    \cup {c \in {[strategy |-> "lyndon", K |-> k, L |-> n, size |-> 0] :
        n \in GenLengths, k \in GenLengths} :
        c.K \in {c.L - 1, c.L}}

\* Densities above one: with 1.4 the weight of length 2 is 2 and that of
\* length 3 is 4, with 1.5 the weights are 3 and 4.
Dense == {14, 15}

InitRun ==
    /\ driver \in {"run", "chunks"}
    /\ IF driver = "run"
       THEN \/ /\ density = Half
               /\ strategy \in {"exhaustive", "random", "bfs"}
               /\ K \in Lengths
               /\ L \in Lengths
               /\ <<K, L>> \in RunSpans
               /\ strategy \in {"random", "bfs"} => K = L
               /\ batch_bits \in BitBudgets
               /\ objective_function \in
                     [RunCodes(K, L) ->
                         IF strategy = "exhaustive" /\ K = MinLen /\ L = MinLen
                         THEN Costs \cup NonFinite ELSE Costs]
               /\ \E d \in [Lengths -> {Json(EmptyTbl)} \cup
                                       UNION {InitContents(n) : n \in Lengths}] :
                     /\ \A n \in Lengths :
                           d[n] \in IF n \in K..L /\ strategy # "bfs"
                                    THEN InitContents(n) \cup {Json(EmptyTbl)}
                                    ELSE {Missing}
                     /\ disk = [n \in Files |->
                                   IF n \in Lengths THEN d[n] ELSE Missing]
               /\ necklaces = << >>
               /\ chunksize = 0
            \/ /\ density \in Dense
               /\ strategy \in {"exhaustive", "random"}
               /\ K \in Lengths
               /\ L \in Lengths
               /\ <<K, L>> \in RunSpans
               /\ strategy = "random" => K = L
               /\ batch_bits \in BitBudgets
               /\ objective_function \in [RunCodes(K, L) -> Costs]
               /\ disk = [n \in Files |-> Missing]
               /\ necklaces = << >>
               /\ chunksize = 0
            \/ \E c \in GenCalls :
               /\ density = Half
               /\ strategy = c.strategy
               /\ K = c.K
               /\ L = c.L
               /\ batch_bits = 0
               /\ objective_function =
                     [x \in IF c.strategy = "lyndon" THEN BinaryWords(c.L)
                            ELSE RunCodes(c.K, c.L) |-> 1]
               /\ disk = [n \in Files |-> Missing]
               /\ necklaces = << >>
               /\ chunksize = c.size
       ELSE /\ density = Half
            /\ strategy = "none"
            /\ K = NoLen
            /\ L = NoLen
            /\ batch_bits = 0
            /\ objective_function = << >>
            /\ disk = [n \in Files |-> Missing]
            /\ necklaces \in WordLists
            /\ chunksize \in 1..MaxBatchSize
    /\ gen_pos = 0
    /\ gen_done = FALSE
    /\ batch = << >>
    /\ code_best = << >>
    /\ scored = << >>
    /\ score_bests = << >>
    /\ arg = 0
    /\ result = 0
    /\ pass = 1
    /\ disk0 = disk
    /\ pfile \in IF /\ driver = "run"
                     /\ strategy = "exhaustive"
                     /\ K = PLen
                     /\ L = PLen
                     /\ disk[PLen] = Json(EmptyTbl)
                  THEN {PMissing, RunFile}
                  ELSE {PMissing}
    /\ InitArchiver
    /\ InitPandas

RunSteps ==
    \/ GetData(Client) \/ IsFile(Client) \/ CreateOpen(Client)
    \/ CreateWrite(Client) \/ Flock(Client) \/ Load(Client) \/ Apply(Client)
    \/ Truncate(Client) \/ Dump(Client) \/ Unlock(Client) \/ Close(Client)
    \/ Exit(Client) \/ Collect(Client)
    \/ Enter(Client) \/ RLen(Client) \/ RStop(Client) \/ RScore(Client)
    \/ ExhaustiveYield(Client)
    \/ /\ pc[Client] = "r_next"
       /\ \E b \in [1..BatchSize(batch_bits, length[Client])
                       -> WeightCodes(length[Client])] : RandomYield(Client, b)
    \/ BfsEnter(Client) \/ BfsBatch(Client)
    \/ NecklaceYield(Client) \/ BraceletYield(Client) \/ RangeStop(Client)
    \/ LyndonEnter(Client) \/ LyndonNext(Client)
    \/ FactorialFails(Client) \/ ChoiceFails(Client)
    \/ ChunkYield

\* The process of the search runs on, or it is killed, or the search that
\* ended badly is called again.
NextRun == RunSteps \/ Kill(Client) \/ Rerun(Client)

SpecRun == InitRun /\ [][NextRun]_vars

\* One call of random. The process of the search is scheduled as long as
\* it has a step to take, and it may be killed. No step of _close_file or
\* of __exit__ is among the steps: none is ever enabled in a call of random.
InitRandom ==
    InitRun /\ driver = "run" /\ strategy = "random" /\ density = Half
RandomSteps ==
    \/ GetData(Client) \/ IsFile(Client) \/ CreateOpen(Client)
    \/ CreateWrite(Client) \/ Flock(Client) \/ Load(Client) \/ Apply(Client)
    \/ Enter(Client) \/ RLen(Client) \/ RScore(Client)
    \/ /\ pc[Client] = "r_next"
       /\ \E b \in [1..BatchSize(batch_bits, length[Client])
                       -> WeightCodes(length[Client])] : RandomYield(Client, b)
NextRandom == RandomSteps \/ Kill(Client)
SpecRandom == InitRandom /\ [][NextRandom]_vars /\ WF_vars(RandomSteps)

\* ------------------------------- the single-file Archiver (jeweler/io.py)
\* Archiver(filename) keeps the records of all lengths in one JSON file,
\* data[str(len(code))][objective] = {cost, code}, and rewrites the file in
\* every update. Several processes share the file.
Filename == 0
OldCode == FirstCode(MinLen)
OldContents ==
    {Missing, Json(EmptyTbl)} \cup
    {Json(Put(EmptyTbl, Str(MinLen), "f", [cost |-> c, code |-> OldCode])) :
        c \in Costs}

InitOld ==
    /\ driver = "single"
    /\ density = Half
    /\ strategy = "none"
    /\ K = NoLen
    /\ L = NoLen
    /\ batch_bits = 0
    /\ objective_function = << >>
    /\ gen_pos = 0
    /\ gen_done = FALSE
    /\ batch = << >>
    /\ code_best = << >>
    /\ scored = << >>
    /\ pass = 1
    /\ necklaces = << >>
    /\ chunksize = 0
    /\ score_bests = << >>
    /\ arg = 0
    /\ result = 0
    /\ disk \in [{Filename} -> OldContents]
    /\ disk0 = disk
    /\ pfile = PMissing
    /\ InitArchiver
    /\ InitPandas

\* __init__: if not os.path.isfile(filename)
OldIsFile(p) ==
    /\ driver = "single"
    /\ pc[p] = "idle"
    /\ pc' = Set(pc, p, IF disk[Filename] = Missing THEN "o_create" ELSE "ready")
    /\ UNCHANGED <<driver, rvars, disk, lock, ret, selfF, selfL, selfData, pend,
                   leaked, exc, raised, args, length, score_best, batches, calls,
                   opened, lastUpd, submitted, fetched, pvars>>

\* __init__: with open(self.filename, 'w') as f, which empties the file
OldCreateOpen(p) ==
    /\ driver = "single"
    /\ pc[p] = "o_create"
    /\ disk' = [disk EXCEPT ![Filename] = Empty]
    /\ pc' = Set(pc, p, "o_init")
    /\ UNCHANGED <<driver, rvars, lock, ret, selfF, selfL, selfData, pend,
                   leaked, exc, raised, args, length, score_best, batches, calls,
                   opened, lastUpd, submitted, fetched, pvars>>

\* __init__: json.dump({}, f, indent=4), written when the with-block closes f
OldCreateWrite(p) ==
    /\ driver = "single"
    /\ pc[p] = "o_init"
    /\ disk' = [disk EXCEPT ![Filename] = WriteAtStart(disk[Filename], EmptyTbl)]
    /\ pc' = Set(pc, p, "ready")
    /\ UNCHANGED <<driver, rvars, lock, ret, selfF, selfL, selfData, pend,
                   leaked, exc, raised, args, length, score_best, batches, calls,
                   opened, lastUpd, submitted, fetched, pvars>>

\* update(objective_function, best_code, objective_cost) is called
OldUpdate(p, cost) ==
    /\ driver = "single"
    /\ pc[p] = "ready"
    /\ calls[p] < MaxCalls
    /\ calls' = Set(calls, p, calls[p] + 1)
    /\ args' = Set(args, p, [objective |-> "f", code |-> OldCode,
                             cost |-> cost, weight |-> 0])
    /\ submitted' = [submitted EXCEPT ![MinLen] =
                        IF cost > @ THEN cost ELSE @]
    /\ pc' = Set(pc, p, "o_open")
    /\ UNCHANGED <<driver, rvars, disk, lock, ret, selfF, selfL, selfData, pend,
                   leaked, exc, raised, length, score_best, batches, opened,
                   lastUpd, fetched, pvars>>

\* update: with open(self.filename, 'a+') as f: fcntl.flock(f, LOCK_EX)
OldFlock(p) ==
    /\ driver = "single"
    /\ pc[p] = "o_open"
    /\ lock[Filename] = NoProc
    /\ lock' = [lock EXCEPT ![Filename] = p]
    /\ pc' = Set(pc, p, "o_load")
    /\ UNCHANGED <<driver, rvars, disk, ret, selfF, selfL, selfData, pend,
                   leaked, exc, raised, args, length, score_best, batches, calls,
                   opened, lastUpd, submitted, fetched, pvars>>

\* update: f.seek(0); data = json.load(f), and the record of
\* data[L][objective_function] is replaced when there is none or its cost is
\* lower.  On JSONDecodeError the exception is raised again; leaving the
\* with-block closes f, which gives up the lock.
OldLoad(p) ==
    /\ driver = "single"
    /\ pc[p] = "o_load"
    /\ IF Parses(disk[Filename])
       THEN /\ selfData' = Set(selfData, p,
                   Updated(disk[Filename].tbl, Str(Len(args[p].code)),
                           args[p].objective, args[p].code, args[p].cost))
            /\ opened' = Set(opened, p, disk[Filename].tbl)
            /\ pc' = Set(pc, p, "o_write")
            /\ UNCHANGED <<lock, exc, raised>>
       ELSE /\ lock' = [lock EXCEPT ![Filename] = NoProc]
            /\ exc' = Set(exc, p, TRUE)
            /\ raised' = Set(raised, p, "json.load")
            /\ pc' = Set(pc, p, "failed")
            /\ UNCHANGED <<selfData, opened>>
    /\ UNCHANGED <<driver, rvars, disk, ret, selfF, selfL, pend, leaked, args,
                   length, score_best, batches, calls, lastUpd, submitted,
                   fetched, pvars>>

\* update: f.seek(0); f.truncate() empties the file; json.dump(data, f,
\* indent=4) fills the buffer of f.
OldWrite(p) ==
    /\ driver = "single"
    /\ pc[p] = "o_write"
    /\ disk' = [disk EXCEPT ![Filename] = Empty]
    /\ pend' = Set(pend, p, "full")
    /\ pc' = Set(pc, p, "o_unlock")
    /\ UNCHANGED <<driver, rvars, lock, ret, selfF, selfL, selfData, leaked, exc,
                   raised, args, length, score_best, batches, calls, opened,
                   lastUpd, submitted, fetched, pvars>>

\* update: fcntl.flock(f, fcntl.LOCK_UN)
OldUnlock(p) ==
    /\ driver = "single"
    /\ pc[p] = "o_unlock"
    /\ lock' = [lock EXCEPT ![Filename] = NoProc]
    /\ pc' = Set(pc, p, "o_close")
    /\ UNCHANGED <<driver, rvars, disk, ret, selfF, selfL, selfData, pend,
                   leaked, exc, raised, args, length, score_best, batches, calls,
                   opened, lastUpd, submitted, fetched, pvars>>

\* update: the with-block closes f, which writes the buffer to the file
OldClose(p) ==
    /\ driver = "single"
    /\ pc[p] = "o_close"
    /\ disk' = [disk EXCEPT ![Filename] = WriteAtEnd(disk[Filename], selfData[p])]
    /\ pend' = Set(pend, p, "none")
    /\ pc' = Set(pc, p, "ready")
    /\ UNCHANGED <<driver, rvars, lock, ret, selfF, selfL, selfData, leaked, exc,
                   raised, args, length, score_best, batches, calls, opened,
                   lastUpd, submitted, fetched, pvars>>

NextOld ==
    \E p \in Procs :
        \/ OldIsFile(p) \/ OldCreateOpen(p) \/ OldCreateWrite(p)
        \/ \E cost \in Costs : OldUpdate(p, cost)
        \/ OldFlock(p) \/ OldLoad(p) \/ OldWrite(p) \/ OldUnlock(p)
        \/ OldClose(p)

SpecOld == InitOld /\ [][NextOld]_vars

\* ------------------------------------- searches in any order of lengths
\* What the Archiver sees of a search, whichever it is: inside one
\* with-block a sequence of update calls, each for a code of some length
\* (exhaustive, random, bracelet and necklace go up through the lengths,
\* lyndon goes back and forth between them), and then __exit__.
InitOrders ==
    /\ driver = "orders"
    /\ InitNoRun
    /\ disk \in [Lengths -> UNION {ApiContents(n) : n \in Lengths}]
    /\ \A n \in Lengths : disk[n] \in ApiContents(n)
    /\ pfile = PMissing
    /\ InitArchiver
    /\ InitPandas

\* f.update(objective_function.__name__, code, score, weight=...)
AnyUpdate(p, n, c) ==
    /\ driver = "orders"
    /\ pc[p] = "ready"
    /\ calls[p] < MaxCalls
    /\ calls' = Set(calls, p, calls[p] + 1)
    /\ args' = Set(args, p, [objective |-> ObjectiveOf(p), code |-> FirstCode(n),
                             cost |-> c, weight |-> Weight(n)])
    /\ pc' = Set(pc, p, "u_get")
    /\ UNCHANGED <<driver, rvars, disk, lock, ret, selfF, selfL, selfData, pend,
                   leaked, exc, raised, length, score_best, batches, opened,
                   lastUpd, submitted, fetched, pvars>>

\* The loop of the search ends and the with-block is left: __exit__.
WithEnds(p) ==
    /\ driver = "orders"
    /\ pc[p] = "ready"
    /\ pc' = Set(pc, p, "x_exit")
    /\ UNCHANGED <<driver, rvars, disk, lock, ret, selfF, selfL, selfData, pend,
                   leaked, exc, raised, args, length, score_best, batches, calls,
                   opened, lastUpd, submitted, fetched, pvars>>

\* The steps of a search that is not terminated from outside.
OrdersStep(p) ==
    \/ ArchiverStep(p) \/ Enter(p) \/ WithEnds(p) \/ CollectSelf(p)
    \/ \E n \in Lengths : \E c \in Costs : AnyUpdate(p, n, c)

NextOrders == \E p \in Procs : OrdersStep(p) \/ Kill(p)

SpecOrders == InitOrders /\ [][NextOrders]_vars

\* ------------------------------------------------ the Moebius function
\* is_prime(n): for i in range(2, n + 1): if i * i <= n and n % i == 0:
\* return False; after the loop return True.
RECURSIVE is_prime_loop(_, _)
is_prime_loop(n, i) ==
    IF i > n THEN TRUE
    ELSE IF i * i <= n /\ n % i = 0 THEN FALSE
    ELSE is_prime_loop(n, i + 1)
is_prime(n) == IF n < 2 THEN FALSE ELSE is_prime_loop(n, 2)

\* moebius(N): the loop for i in range(1, N + 1) with its counter p, and
\* the return after it.
\* (a loop that does not look for the square of a prime factor)
RECURSIVE moebius_loop_count(_, _, _)
moebius_loop_count(N, i, p) ==
    IF i > N THEN (IF p % 2 # 0 THEN -1 ELSE 1)
    ELSE IF N % i = 0 /\ is_prime(i) THEN moebius_loop_count(N, i + 1, p + 1)
    ELSE moebius_loop_count(N, i + 1, p)
RECURSIVE moebius_loop(_, _, _)
moebius_loop(N, i, p) ==
    IF i > N THEN (IF p % 2 # 0 THEN -1 ELSE 1)
    ELSE IF N % i = 0 /\ is_prime(i)
         THEN IF N % (i * i) = 0 THEN 0
              ELSE moebius_loop(N, i + 1, p + 1)
    ELSE moebius_loop(N, i + 1, p)
moebius(N) == IF N = 1 THEN 1 ELSE moebius_loop(N, 1, 0)

\* One call of moebius with N >= 1, or one call of is_prime with any
\* integer.
InitMoebius ==
    /\ driver \in {"moebius", "is_prime"}
    /\ density = Half
    /\ strategy = "none"
    /\ K = NoLen
    /\ L = NoLen
    /\ batch_bits = 0
    /\ objective_function = << >>
    /\ gen_pos = 0
    /\ gen_done = FALSE
    /\ batch = << >>
    /\ code_best = << >>
    /\ scored = << >>
    /\ pass = 1
    /\ disk0 = << >>
    /\ necklaces = << >>
    /\ chunksize = 0
    /\ score_bests = << >>
    /\ arg \in IF driver = "moebius" THEN 1..MaxN ELSE (0 - MaxN)..MaxN
    /\ result = IF driver = "moebius" THEN 0 ELSE FALSE
    /\ disk = [n \in Lengths |-> Missing]
    /\ pfile = PMissing
    /\ InitArchiver
    /\ InitPandas

CallMoebius ==
    /\ driver = "moebius"
    /\ pc[Client] = "idle"
    /\ result' = moebius(arg)
    /\ pc' = Set(pc, Client, "done")
    /\ UNCHANGED <<driver, disk, lock, ret, selfF, selfL, selfData, pend,
                   leaked, exc, raised, args, length, score_best, batches,
                   calls, opened, lastUpd, submitted, fetched, pvars,
                   strategy, K, L, batch_bits, objective_function, gen_pos,
                   gen_done, batch, code_best, scored, pass, disk0, necklaces,
                   chunksize, score_bests, density, arg>>

CallIsPrime ==
    /\ driver = "is_prime"
    /\ pc[Client] = "idle"
    /\ result' = is_prime(arg)
    /\ pc' = Set(pc, Client, "done")
    /\ UNCHANGED <<driver, disk, lock, ret, selfF, selfL, selfData, pend,
                   leaked, exc, raised, args, length, score_best, batches,
                   calls, opened, lastUpd, submitted, fetched, pvars,
                   strategy, K, L, batch_bits, objective_function, gen_pos,
                   gen_done, batch, code_best, scored, pass, disk0, necklaces,
                   chunksize, score_bests, density, arg>>

NextMoebius == CallMoebius \/ CallIsPrime

SpecMoebius == InitMoebius /\ [][NextMoebius]_vars

\* ----------------------------------------------------------- properties
KeyW(n) == Str(Weight(n))
Keys(data) == {k \in (DOMAIN data) \X Objectives : k[2] \in DOMAIN data[k[1]]}
StoredCost(content, W, o) ==
    IF Parses(content) /\ Has(content.tbl, W, o) THEN content.tbl[W][o].cost
    ELSE NegInf
ApplyStep(p) == pc[p] = "u_apply" /\ pc'[p] # "u_apply"

\* C1: Archiver.update replaces the stored {cost, code} of the key (weight,
\* objective) exactly when the table has no record for the key or the new
\* cost is strictly greater than the stored cost; with an equal or lower
\* cost the stored cost and code stay as they were.
C1_UpdateIffBetter ==
    [][\A p \in Procs :
          ApplyStep(p) =>
             LET a == args[p]
                 W == Str(a.weight)
                 o == a.objective
                 old == selfData[p]
                 new == selfData'[p]
             IN /\ Has(new, W, o)
                /\ IF ~Has(old, W, o) \/ old[W][o].cost < a.cost
                   THEN new[W][o] = [cost |-> a.cost, code |-> a.code]
                   ELSE new[W][o] = old[W][o]]_vars

\* An update with the stored cost and another code has been refused.
C1_Witness ==
    LET u == lastUpd[Client] IN
    /\ u.n # NoLen
    /\ ~u.accepted
    /\ Has(selfData[Client], u.W, u.objective)
    /\ selfData[Client][u.W][u.objective].cost = u.rec.cost
    /\ selfData[Client][u.W][u.objective].code # u.rec.code

\* C2: when every search has run its open/update/close cycles to the end,
\* the container of each length holds, for the key the searches wrote, a cost
\* at least as high as every cost submitted to update (no lost update).
C2_NoLostUpdate ==
    (\A p \in Procs : pc[p] = "done") =>
        \A n \in Lengths :
            submitted[n] > NegInf =>
                /\ Parses(disk[n])
                /\ StoredCost(disk[n], KeyW(n), "f") >= submitted[n]

\* C3: every read and every write of a container file is made by a process
\* that holds the exclusive lock of that file: a process about to create,
\* initialise, load, truncate or write the file is the holder of its lock.
FileOf(p) ==
    IF pc[p] \in {"g_create", "g_init", "g_load"} THEN Len(args[p].code)
    ELSE selfL[p]
C3_AccessUnderLock ==
    \A p \in Procs :
        pc[p] \in {"g_create", "g_init", "g_load", "c_trunc", "c_close"} =>
            lock[FileOf(p)] = p

\* C4: an Archiver that has finished, by leaving its with-block normally or
\* with an exception, holds no lock.
C4_LockReleased ==
    \A p \in Procs :
        pc[p] \in {"done", "failed"} => \A n \in Lengths : lock[n] # p

\* C5: at every instant of _close_file the file holds the complete contents
\* read when it was locked or the complete new contents, and a fetch of it
\* would parse it.
C5_AtomicReplace ==
    \A p \in Procs :
        pc[p] \in {"c_dump", "c_unlock", "c_close"} =>
            /\ disk[selfL[p]] \in {Json(opened[p]), Json(selfData[p])}
            /\ FetchResult(disk[selfL[p]], KeyW(selfL[p]), "f").res
                   # "JSONDecodeError"

\* C6: between two batches of a length (no batch in flight, so a termination
\* now loses no batch), the container of the length on disk holds a record at
\* least as good as the best score of the batches completed.
C6_WriteThrough ==
    \A p \in Procs :
        (pc[p] = "s_batch" /\ score_best[p] > NegInf) =>
            StoredCost(disk[length[p]], KeyW(length[p]), ObjectiveOf(p))
                >= score_best[p]

\* C7: when the container exists and does not parse, _get_data raises right
\* after taking the lock, without setting self.f or self.data, and fetch
\* raises JSONDecodeError; neither changes a byte of any container.
C7_CorruptContainerRaises ==
    [][/\ \A p \in Procs :
            (/\ pc[p] = "g_load"
             /\ pc'[p] # "g_load"
             /\ disk[Len(args[p].code)].st \in {"empty", "garbage"}) =>
                /\ disk' = disk
                /\ pc'[p] \in {"ready", "x_exit"}
                /\ selfF'[p] = selfF[p]
                /\ selfData'[p] = selfData[p]
                /\ selfL'[p] = selfL[p]
       /\ (/\ fetched' # fetched
           /\ fetched'.res # "none"
           /\ disk[fetched'.n].st \in {"empty", "garbage"}) =>
                /\ disk' = disk
                /\ fetched'.res = "JSONDecodeError"]_vars

\* An update met a container that does not parse, and so did a fetch.
C7_Witness ==
    /\ leaked[Client] # {}
    /\ fetched.res = "JSONDecodeError"
    /\ disk[fetched.n].st = "empty"

SameKey == /\ lastUpd[Client].n = fetched.n
           /\ lastUpd[Client].W = fetched.W
           /\ lastUpd[Client].objective = fetched.objective
SameTriple == /\ plast.search = pres.search
              /\ plast.objective = pres.objective
              /\ plast.weight = pres.weight

\* C8 as stated: a fetch that follows an update with the same key returns the
\* code and the cost that were passed to the update, whatever they were.
C8_RoundTrip ==
    /\ (fetched.res # "none" /\ SameKey) =>
           /\ fetched.res = "found"
           /\ fetched.rec = lastUpd[Client].rec
    /\ (pres.res # "none" /\ SameTriple) =>
           /\ pres.code = plast.code
           /\ pres.cost = plast.cost

\* C8 amended: the round trip holds for an update that was accepted and that
\* the archive has written to the container since.  Archiver: the key had no
\* record or a strictly lower cost, and _close_file wrote the table.
\* ArchiverPandas: the cost was above best_cost and, rounded to 6 decimals,
\* above every cost recorded for the triple, and __dump__ wrote the table; the
\* cost returned is the cost rounded to 6 decimals.
C8_RoundTripCommitted ==
    /\ (/\ fetched.res # "none"
        /\ SameKey
        /\ lastUpd[Client].accepted
        /\ lastUpd[Client].committed) =>
           /\ fetched.res = "found"
           /\ fetched.rec = lastUpd[Client].rec
    /\ (/\ pres.res # "none"
        /\ SameTriple
        /\ plast.appended
        /\ plast.top
        /\ plast.dumped) =>
           /\ pres.res = "found"
           /\ pres.code = plast.code
           /\ pres.cost = Round6(plast.cost)

\* A fetch returned the row of the update before it, its cost rounded, while
\* the file holds another row of the same triple.
C8_Witness ==
    /\ pres.res = "found"
    /\ SameTriple
    /\ plast.appended /\ plast.top /\ plast.dumped
    /\ pres.code = plast.code
    /\ pres.cost # plast.cost
    /\ Len(OfTriple(pfile.rows, pres.search, pres.objective, pres.weight)) > 1

C10_ProgressAdvances ==
    (/\ pres.res # "none"
     /\ SameTriple
     /\ plast.dumped
     /\ \A i \in 1..Len(pfile.rows) :
           (/\ pfile.rows[i].search = plast.search
            /\ pfile.rows[i].objective = plast.objective
            /\ pfile.rows[i].weight = plast.weight)
               => pfile.rows[i].progress <= plast.progress) =>
        /\ pres.res = "found"
        /\ pres.progress = plast.progress

\* C11: while every update passed a progress value not below those passed
\* before it (to any triple of the container), a fetch of a triple returns a
\* progress value not below the one an earlier fetch of the triple returned.
C11_ProgressMonotone ==
    [][(/\ pres' # pres
        /\ pres'.res # "none"
        /\ pres'.search = SeenSearch
        /\ pmono') => pres'.progress >= pseen]_vars

\* C12: ArchiverPandas.fetch returns the sentinel (None, -inf, 0) exactly
\* when the container is missing or has no row of the triple; otherwise it
\* returns code, cost and progress of a row of the triple whose cost no row
\* of the triple exceeds.
C12_FetchSentinelOrBest ==
    [][(pres' # pres /\ pres'.res # "none") =>
          LET rows == IF pfile.st = "missing" THEN << >> ELSE pfile.rows
              mine == {i \in 1..Len(rows) :
                          /\ rows[i].search = pres'.search
                          /\ rows[i].objective = pres'.objective
                          /\ rows[i].weight = pres'.weight}
          IN /\ pfile' = pfile
             /\ (pres'.res = "sentinel") <=> (mine = {})
             /\ pres'.res = "sentinel" =>
                   /\ pres'.code = << >>
                   /\ pres'.cost = NegInf
                   /\ pres'.progress = 0
             /\ pres'.res # "sentinel" =>
                   \E i \in mine :
                      /\ \A j \in mine : rows[j].cost <= rows[i].cost
                      /\ pres'.code = rows[i].code
                      /\ pres'.cost = rows[i].cost
                      /\ pres'.progress = rows[i].progress]_vars

\* A fetch returned the row of highest cost of a triple of which the
\* container holds a row of lower cost as well.
C12_Witness ==
    /\ pres.res = "found"
    /\ \E i \in 1..Len(pfile.rows) :
          /\ pfile.rows[i].search = pres.search
          /\ pfile.rows[i].cost < pres.cost

\* C13: Archiver.fetch raises NotInCatalogError when the container of L is
\* missing or is a table without a record for (weight, objective); what it
\* returns is the record stored under exactly that weight and objective in
\* the container of L; catalog.best raises the same or returns that record's
\* code; and a fetch leaves every container as it was.
C13_FetchNotInCatalog ==
    [][(fetched' # fetched /\ fetched'.res # "none") =>
          LET c == disk[fetched'.n]
              W == fetched'.W
              o == fetched'.objective
              b == BestResult(c, W, o)
          IN /\ disk' = disk
             /\ (c.st = "missing" \/ (c.st = "json" /\ ~Has(c.tbl, W, o))) =>
                   /\ fetched'.res = "NotInCatalogError"
                   /\ b.res = "NotInCatalogError"
             /\ fetched'.res = "found" =>
                   /\ c.st = "json"
                   /\ Has(c.tbl, W, o)
                   /\ fetched'.rec = c.tbl[W][o]
                   /\ b = [res |-> "found", code |-> c.tbl[W][o].code]]_vars

\* A fetch raised NotInCatalogError on a container that holds a record of the
\* weight for another objective.
C13_Witness ==
    /\ fetched.res = "NotInCatalogError"
    /\ disk[fetched.n].st = "json"
    /\ fetched.W \in DOMAIN disk[fetched.n].tbl
    /\ DOMAIN disk[fetched.n].tbl[fetched.W] # {}

\* C14: when the objective function raised during a search, the search ends
\* holding no container lock, and from the raise on it scores no batch and
\* starts no length.
C14_ObjectiveFailureReleases ==
    /\ [](\A p \in Procs :
            (raised[p] = "objective" /\ pc[p] = "failed") =>
                \A n \in Lengths : lock[n] # p)
    /\ [][\A p \in Procs :
            (raised[p] = "objective" /\ raised'[p] = "objective") =>
                /\ batches'[p] = batches[p]
                /\ length'[p] = length[p]
                /\ score_best'[p] = score_best[p]]_vars

\* C15: a search that ended with a failure of its objective or of the
\* json.dump of _close_file leaves the container of the length it had open
\* with the table read when the container was locked or with the table
\* _close_file wrote.
C15_FailureKeepsCommitted ==
    \A p \in Procs :
        (/\ pc[p] = "failed"
         /\ raised[p] \in {"objective", "json.dump"}
         /\ selfL[p] # NoLen) =>
            disk[selfL[p]] \in {Json(opened[p]), Json(selfData[p])}

\* What one uninterrupted call of exhaustive leaves, folded from its loop.
\* Yields: the batches _exhaustive_batch yields, up to its return.
RECURSIVE Yields(_, _, _, _)
Yields(combos, pos, batch_size, n) ==
    LET y == FillRows(combos, pos, << >>, batch_size, n) IN
    <<y.codes>> \o (IF y.stop THEN << >>
                    ELSE Yields(combos, y.pos, batch_size, n))
YieldsOf(n) ==
    Yields(Combinations(n, Weight(n)), 0, BatchSize(batch_bits, n), n)
\* The loop over the batches ys from the i-th on: the table after the
\* updates, where np.argmax ends the loop on a batch without rows.
RECURSIVE SearchLength(_, _, _, _, _)
SearchLength(data, ys, i, best, n) ==
    IF i > Len(ys) \/ ys[i] = << >> THEN data
    ELSE LET scores == Scores(ys[i])
             b == ArgMax(scores)
         IN IF Gt(scores[b], best)
            THEN SearchLength(Updated(data, Str(Weight(n)), "f", ys[i][b],
                                      scores[b]), ys, i + 1, scores[b], n)
            ELSE SearchLength(data, ys, i + 1, best, n)
\* The lengths the loop reaches: those no ValueError of a shorter one cuts.
Reached(n) ==
    /\ n \in K..L
    /\ \A m \in K..(n - 1) : YieldsOf(m)[Len(YieldsOf(m))] # << >>
OnePass(n) ==
    SearchLength(disk0[n].tbl, YieldsOf(n), 1, NegInf, n)
StoredRec(content, W, o) ==
    IF content.st = "json" /\ Has(content.tbl, W, o) THEN content.tbl[W][o]
    ELSE NoRec

\* C16: for exhaustive and a fixed objective, once the call that follows an
\* interrupted call has run to its end, every length it searched has the
\* archived best (code, cost) that one uninterrupted call leaves.
C16_ResumeSameArchive ==
    (/\ driver = "run"
     /\ strategy = "exhaustive"
     /\ pass = 2
     /\ pc[Client] \in {"done", "failed"})
    => \A n \in K..L :
          Reached(n) =>
              StoredRec(disk[n], Str(Weight(n)), "f")
                  = StoredRec(Json(OnePass(n)), Str(Weight(n)), "f")

\* C17: when the archive records progress above zero for the (strategy,
\* objective, weight) of the length, the objective is not called on a batch
\* with which the count of candidates taken is still below that progress.
C17_ResumeSkip ==
    [][(/\ driver = "run"
        /\ pc[Client] = "r_score"
        /\ batches'[Client] = batches[Client] + 1)
       => LET r == PFetchResult(pfile, strategy, "f", Weight(length[Client]))
          IN ~(r.res = "found" /\ r.progress > 0 /\ gen_pos < r.progress)]_vars

\* C18: when exhaustive has finished a length n, scored with finite numbers,
\* on an archive with no prior record, and when bfs has returned, the best
\* code kept (in the table of
\* the Archiver, in the container once the call is done, in code_best of
\* bfs) has length n and exactly k ones, its score is the maximum of the
\* objective over all combinations, and it is the first in the order of
\* itertools.combinations that has that score.
C18_RunningBest ==
    LET FirstBest(rec, n) ==
            LET E == Combinations(n, Weight(n)) IN
            /\ Len(rec.code) = n
            /\ Cardinality({j \in 1..n : rec.code[j] = 1}) = Weight(n)
            /\ \A j \in 1..n : rec.code[j] \in {0, 1}
            /\ Len(E) * Weight(n) = Cardinality(
                   {x \in (1..Len(E)) \X (1..n) : OneHot(E[x[1]], n)[x[2]] = 1})
            /\ \E i \in 1..Len(E) :
                  /\ rec.code = OneHot(E[i], n)
                  /\ rec.cost = objective_function[rec.code]
                  /\ \A j \in 1..Len(E) :
                        objective_function[OneHot(E[j], n)] <= rec.cost
                  /\ \A j \in 1..(i - 1) :
                        objective_function[OneHot(E[j], n)] < rec.cost
        NoPrior(n) ==
            /\ ~Has(disk0[n].tbl, Str(Weight(n)), "f")
            /\ \A c \in WeightCodes(n) : objective_function[c] \in Costs
    IN /\ (/\ driver = "run"
           /\ strategy = "exhaustive"
           /\ pc[Client] = "r_len"
           /\ length[Client] # NoLen
           /\ NoPrior(length[Client]))
          => /\ Has(selfData[Client], Str(Weight(length[Client])), "f")
             /\ FirstBest(selfData[Client][Str(Weight(length[Client]))]["f"],
                          length[Client])
       /\ (/\ driver = "run"
           /\ strategy = "exhaustive"
           /\ pc[Client] = "done")
          => \A n \in K..L :
                NoPrior(n) =>
                    /\ disk[n].st = "json"
                    /\ Has(disk[n].tbl, Str(Weight(n)), "f")
                    /\ FirstBest(disk[n].tbl[Str(Weight(n))]["f"], n)
       /\ (/\ driver = "run"
           /\ strategy = "bfs"
           /\ pc[Client] = "done")
          => FirstBest([code |-> code_best, cost |-> score_best[Client]], L)
\* exhaustive is done with a length it scored in two batches or more, where
\* a code of a later batch has the score of the recorded one.
C18_Witness ==
    /\ driver = "run"
    /\ strategy = "exhaustive"
    /\ pc[Client] = "done"
    /\ Len(scored) >= 2
    /\ ~Has(disk0[L].tbl, Str(Weight(L)), "f")
    /\ disk[L].st = "json"
    /\ Has(disk[L].tbl, Str(Weight(L)), "f")
    /\ \E i \in 2..Len(scored) : \E j \in 1..Len(scored[i]) :
          /\ scored[i][j] # disk[L].tbl[Str(Weight(L))]["f"].code
          /\ objective_function[scored[i][j]]
                 = disk[L].tbl[Str(Weight(L))]["f"].cost

\* C19: the batches _exhaustive_batch and _necklace_chunk have yielded so
\* far, joined in order, are the candidates taken from the enumeration so
\* far, each once and in its order; when the generator has made its last
\* yield they are the whole enumeration, so the rows of all batches count
\* the candidates, also when the last batch is short.
C19_BatchesPartition ==
    LET Flatten(bs) ==
            LET RECURSIVE F(_)
                F(i) == IF i > Len(bs) THEN << >> ELSE bs[i] \o F(i + 1)
            IN F(1)
        Codes(n) ==
            [i \in 1..Len(Combinations(n, Weight(n))) |->
                [j \in 1..n |->
                    IF \E x \in 1..Weight(n) :
                           Combinations(n, Weight(n))[i][x] = j - 1
                    THEN 1 ELSE 0]]
        Words == [i \in 1..Len(necklaces) |->
                     [j \in 1..Len(necklaces[i]) |-> necklaces[i][j] - 1]]
    IN /\ (/\ driver = "run"
           /\ strategy = "exhaustive"
           /\ length[Client] # NoLen)
          => /\ gen_pos <= Len(Codes(length[Client]))
             /\ Flatten(scored) = SubSeq(Codes(length[Client]), 1, gen_pos)
             /\ gen_done => gen_pos = Len(Codes(length[Client]))
       /\ driver = "chunks"
          => /\ gen_pos <= Len(necklaces)
             /\ Flatten(scored) = SubSeq(Words, 1, gen_pos)
             /\ gen_done => gen_pos = Len(necklaces)
\* _exhaustive_batch has made its last yield, a batch with rows and shorter
\* than the one before it.
C19_Witness ==
    /\ driver = "run"
    /\ strategy = "exhaustive"
    /\ length[Client] # NoLen
    /\ gen_done
    /\ Len(scored) >= 2
    /\ scored[Len(scored)] # << >>
    /\ Len(scored[Len(scored)]) < Len(scored[1])

\* C20: in exhaustive, random and bfs, which take a budget of bits, every
\* batch passed to the objective for a length has at most
\* max(1, batch_bits div length) candidates, and every batch but the last
\* of the length has exactly that many.
C20_BatchWithinBudget ==
    (/\ driver = "run"
     /\ strategy \in {"exhaustive", "random", "bfs"}
     /\ length[Client] # NoLen)
    => LET q == batch_bits \div length[Client]
           most == IF 1 >= q THEN 1 ELSE q
       IN \A i \in 1..Len(scored) :
             /\ Len(scored[i]) <= most
             /\ i < Len(scored) => Len(scored[i]) = most
\* The budget is below the bits of one code and the objective has scored
\* two batches of the length; or the budget holds two codes or more and
\* the last batch scored is shorter.
C20_Witness ==
    /\ driver = "run"
    /\ strategy \in {"exhaustive", "random", "bfs"}
    /\ length[Client] # NoLen
    /\ batches[Client] >= 2
    /\ \/ batch_bits \div length[Client] = 0
       \/ /\ batch_bits \div length[Client] >= 2
          /\ Len(scored[Len(scored)]) < batch_bits \div length[Client]

\* C21: a batch whose arg-max has a score that is no finite number (nan,
\* inf or -inf) changes neither the running best nor the archive: update
\* is not called, whatever the running best is.
C21_NonFiniteRejected ==
    [][(/\ driver = "run"
        /\ strategy = "exhaustive"
        /\ pc[Client] = "r_score"
        /\ batches'[Client] = batches[Client] + 1
        /\ Scores(batch)[ArgMax(Scores(batch))] \in NonFinite)
       => /\ score_best'[Client] = score_best[Client]
          /\ code_best' = code_best
          /\ pc'[Client] # "u_get"
          /\ args' = args]_vars

\* C22: every sequence passed to the objective and every code passed to
\* Archiver.update by exhaustive, random and lyndon for a length n has n
\* entries of {0, 1} with exactly int(n * density) ones, and the weight
\* passed with it is that number; lyndon scores only words of a length in
\* K..L with the weight of their length.
IsWeightCode(c, n) ==
    /\ c \in [1..n -> {0, 1}]
    /\ Cardinality({i \in 1..n : c[i] = 1}) = Weight(n)
C22_WeightInvariant ==
    (driver = "run" /\ strategy \in {"exhaustive", "random", "lyndon"})
    => /\ \A i \in 1..Len(scored) : \A j \in 1..Len(scored[i]) :
             /\ Len(scored[i][j]) \in K..L
             /\ IsWeightCode(scored[i][j], Len(scored[i][j]))
       /\ pc[Client] = "r_score"
          => \A j \in 1..Len(batch) : IsWeightCode(batch[j], length[Client])
       /\ pc[Client] = "u_get"
          => /\ IsWeightCode(args[Client].code, length[Client])
             /\ args[Client].weight = Weight(length[Client])
\* lyndon, called with K below L, has scored a word of length L and a
\* shorter one, and update has the shorter word.
C22_Witness ==
    /\ driver = "run"
    /\ strategy = "lyndon"
    /\ Len(scored) = 2
    /\ Len(scored[1][1]) = L
    /\ Len(scored[2][1]) < L
    /\ args[Client].code = scored[2][1]
    /\ pc[Client] = "u_get"

\* C23: a call of random ends: after finitely many batches of each length
\* the loop of the length is left, and the call returns (or fails, or its
\* process is killed).
C23_RandomReturns ==
    (driver = "run" /\ strategy = "random")
    ~> (pc[Client] \in {"done", "failed", "killed"})

\* C24: exhaustive, necklace and bracelet take the lengths K..L one at a
\* time in increasing order, and when a batch of a length is about to be
\* evaluated the container of every other length is closed: the process
\* holds no lock on it and its Archiver does not name it any more.
C24_ClosedBeforeNextLength ==
    (/\ driver = "run"
     /\ strategy \in {"exhaustive", "necklace", "bracelet"}
     /\ pc[Client] = "r_score")
    => /\ length[Client] \in K..L
       /\ selfL[Client] \in {NoLen, length[Client]}
       /\ \A m \in Files \ {length[Client]} : lock[m] # Client

\* C25: when necklace has run through the loop of a length, the sequences
\* it has passed to the objective are words of the length and weight, no
\* two of them are rotations of each other, and every word of the length
\* and weight is a rotation of one of them; the same for bracelet with
\* rotations and reversed rotations.
C25_OnePerClass ==
    (/\ driver = "run"
     /\ strategy \in {"necklace", "bracelet"}
     /\ length[Client] # NoLen
     /\ pc[Client] = "r_len" \/ raised[Client] = "argmax")
    => LET n == length[Client]
           Rows == {<<i, j>> \in (1..Len(scored)) \X (1..MaxBatchSize) :
                       j <= Len(scored[i])}
           Same(a, b) ==
               \E i \in 0..(n - 1) :
                   \/ Rot(a, i) = b
                   \/ strategy = "bracelet" /\ Rot(Rev(a), i) = b
       IN /\ \A r \in Rows : scored[r[1]][r[2]] \in Words01(n, Weight(n))
          /\ \A r, q \in Rows :
                r # q => ~Same(scored[r[1]][r[2]], scored[q[1]][q[2]])
          /\ \A w \in Words01(n, Weight(n)) :
                \E r \in Rows : Same(scored[r[1]][r[2]], w)
\* bracelet has run through the loop of length 6, where two of the four
\* necklaces are each other's reversal, in two batches or more.
C25_Witness ==
    /\ driver = "run"
    /\ strategy = "bracelet"
    /\ length[Client] = 6
    /\ pc[Client] = "r_len"
    /\ Len(scored) >= 2
    /\ Cardinality({scored[i][j] : i \in 1..Len(scored), j \in 1..1}) >= 2

\* The words of length L lyndon has scored once it has taken the last word
\* of its enumeration, and the words necklace passes to the objective for
\* the length (all of Necklaces, by C25).
LyndonDone ==
    /\ driver = "run"
    /\ strategy = "lyndon"
    /\ gen_pos = Len(LengthLimitedLyndonWords(L, LyndonStart(L)))
LyndonScored ==
    {scored[i][1] : i \in {j \in 1..Len(scored) : Len(scored[j][1]) = L}}
NecklaceScored ==
    {MinusOne(Necklaces(L, Weight(L)))[i] :
        i \in 1..Len(Necklaces(L, Weight(L)))}
Periodic(w) == \E i \in 1..(Len(w) - 1) : Rot(w, i) = w

\* C26 (as claimed): for every length and weight the set of words scored
\* by lyndon is a strict subset of the set scored by necklace, and it is
\* the necklace set without the periodic necklaces.
C26_StrictSubset ==
    LyndonDone
    => /\ LyndonScored \subseteq NecklaceScored
       /\ LyndonScored # NecklaceScored
       /\ LyndonScored = {w \in NecklaceScored : ~Periodic(w)}

\* C26 (amended): the set of words of length L scored by lyndon is a subset
\* of the set scored by necklace, namely the necklace set without the
\* periodic necklaces; it is a strict subset exactly when the length and
\* weight have a periodic necklace.
C26_NecklacesLessPeriodic ==
    LyndonDone
    => /\ LyndonScored \subseteq NecklaceScored
       /\ LyndonScored = {w \in NecklaceScored : ~Periodic(w)}
       /\ LyndonScored # NecklaceScored
          <=> \E w \in NecklaceScored : Periodic(w)
\* lyndon has taken all words for a length that has a periodic necklace and
\* two Lyndon words or more of the weight.
C26_Witness ==
    /\ LyndonDone
    /\ \E w \in NecklaceScored : Periodic(w)
    /\ Cardinality(LyndonScored) >= 2

\* C27: a search called with a density that gives some length of K..L a
\* weight above the length fails before anything is done: no batch reaches
\* the objective, no container is created or changed, and the call does
\* not return normally.
C27_DenseFailsFirst ==
    (driver = "run" /\ \E n \in K..L : Weight(n) > n)
    => /\ pc[Client] \notin {"r_score", "done"}
       /\ batches[Client] = 0
       /\ disk = disk0

\* C28: every batch exhaustive, necklace and bracelet pass to the
\* objective has a row, so np.argmax never fails on a batch without rows.
C28_NoEmptyBatch ==
    (driver = "run" /\ strategy \in {"exhaustive", "necklace", "bracelet"})
    => /\ pc[Client] = "r_score" => batch # << >>
       /\ raised[Client] # "argmax"

\* C29: in the single-file Archiver, for updates of several processes on a
\* file that exists when they start, the file parses whenever a process
\* reads it under the lock, no update fails, and when every update has
\* returned the stored cost of the key is the highest of the cost stored
\* at the start and the costs submitted.
C29_SingleFileSerialized ==
    (driver = "single" /\ disk0[Filename] # Missing)
    => /\ \A p \in Procs :
             /\ pc[p] = "o_load" => Parses(disk[Filename])
             /\ raised[p] = "none"
       /\ (\A p \in Procs : pc[p] \in {"idle", "ready"})
          => LET first == StoredCost(disk0[Filename], Str(MinLen), "f")
                 most == IF submitted[MinLen] > first
                         THEN submitted[MinLen] ELSE first
             IN StoredCost(disk[Filename], Str(MinLen), "f") = most

\* C30: the creation of a container a process found missing (open with
\* 'w' and the write of the empty table) never changes a file that holds
\* records, and never leaves a file that does not parse to a process that
\* holds the lock of the file and is about to read it.
C30_CreateKeepsData ==
    [][\A p \in Procs : \A n \in DOMAIN disk :
          (/\ \/ pc[p] = "g_create" /\ pc'[p] = "g_init"
              \/ pc[p] = "g_init" /\ pc'[p] = "g_lock"
           /\ Len(args[p].code) = n)
          => /\ (disk[n].st = "json" /\ disk[n].tbl # EmptyTbl)
                => disk'[n] = disk[n]
             /\ (\E q \in Procs \ {p} : lock[n] = q /\ pc[q] = "g_load")
                => Parses(disk'[n])]_vars

\* The (search, objective, weight) triple of a row, and the rows __dump__
\* is about to append to the table of the file: self.table, with the row
\* of the update call that triggers the dump.
TripleOf(r) == <<r.search, r.objective, r.weight>>
Pending ==
    IF calls'[Client] # calls[Client] /\ plast'.appended
    THEN Append(ptable, Row(plast'.search, plast'.objective, plast'.code,
                            plast'.cost, plast'.weight, plast'.progress))
    ELSE ptable

\* C31: an update changes nothing but its key.  Archiver: the step of
\* update that replaces the record changes no other (weight, objective)
\* record of the table and no container, and the commit of a container
\* changes no container of another length.  ArchiverPandas: a __dump__
\* keeps, as it was, every row of the file whose (search, objective,
\* weight) triple none of the rows being written has.
C31_UpdateFrame ==
    [][/\ \A p \in Procs :
             ApplyStep(p) =>
                 LET a == args[p]
                     key == <<Str(a.weight), a.objective>>
                 IN /\ disk' = disk
                    /\ \A k \in Keys(selfData[p]) \ {key} :
                           /\ Has(selfData'[p], k[1], k[2])
                           /\ selfData'[p][k[1]][k[2]] = selfData[p][k[1]][k[2]]
                    /\ Keys(selfData'[p]) \subseteq Keys(selfData[p]) \cup {key}
       /\ \A p \in Procs :
             (pc[p] \in {"c_trunc", "c_close"} /\ pc'[p] # pc[p]) =>
                 \A n \in DOMAIN disk : n # selfL[p] => disk'[n] = disk[n]
       /\ (driver = "pandas" /\ pfile.st = "json" /\ pfile' # pfile) =>
             \A i \in 1..Len(pfile.rows) :
                 (\A j \in 1..Len(Pending) :
                      TripleOf(Pending[j]) # TripleOf(pfile.rows[i]))
                 => \E k \in 1..Len(pfile'.rows) :
                        pfile'.rows[k] = pfile.rows[i]]_vars

\* __exit__ (or _close_file called by the client) returns: straight away
\* when self.f is None, and otherwise after f.close().
ExitReturns(p) ==
    /\ driver = "api"
    /\ pc'[p] = "ready"
    /\ \/ pc[p] = "x_exit"
       \/ pc[p] = "c_close" /\ ret[p] = "ready"

\* C32: when the Archiver has been closed after an update that replaced
\* the record of its key, the container of the length of that update holds
\* a record of the key with at least the cost of the update, also when the
\* container had been closed before the update.
C32_AcceptedPersisted ==
    [][\A p \in Procs :
          (ExitReturns(p) /\ lastUpd'[p].accepted) =>
              LET u == lastUpd'[p] IN
              StoredCost(disk'[u.n], u.W, u.objective) >= u.rec.cost]_vars

\* The containers whose lock p holds; p has finished when it has left its
\* with-block, or was terminated, and its file objects are closed.
Locks(p) == {n \in DOMAIN lock : lock[n] = p}
Finished(p) == pc[p] \in {"done", "failed", "killed"} /\ Locks(p) = {}

\* C33: with searches that call update for lengths in any order, a
\* process holds the lock of at most one container at any time, and as
\* long as some process has not finished, some process that has not
\* finished can take a step.
C33_OneLockNoDeadlock ==
    /\ \A p \in Procs : Cardinality(Locks(p)) <= 1
    /\ (\E p \in Procs : ~Finished(p))
       => \E p \in Procs : ~Finished(p) /\ ENABLED OrdersStep(p)

\* A process that went from the longest length to the shortest waits for
\* the lock of the shortest, which a process holds that is on its way to
\* another length.
C33_Witness ==
    \E p, q \in Procs :
        /\ p # q
        /\ pc[p] = "g_lock"
        /\ selfL[p] = MaxLen
        /\ Len(args[p].code) = MinLen
        /\ lock[MinLen] = q
        /\ pc[q] = "u_get"
        /\ Len(args[q].code) # MinLen

\* The primes and the Moebius function as number theory defines them.
Prime(n) == n >= 2 /\ \A d \in 2..(n - 1) : n % d # 0
PrimeFactors(n) == {q \in 2..n : Prime(q) /\ n % q = 0}
Mu(n) ==
    IF n = 1 THEN 1
    ELSE IF \E q \in PrimeFactors(n) : n % (q * q) = 0 THEN 0
    ELSE IF Cardinality(PrimeFactors(n)) % 2 = 0 THEN 1 ELSE -1

\* C34: moebius(N) is the Moebius function of N for every N >= 1 (1 for
\* N = 1, 0 when the square of a prime divides N, and otherwise -1 to the
\* number of distinct prime factors of N), and is_prime(n) is true exactly
\* when n is a prime.
C34_MoebiusCorrect ==
    pc[Client] = "done" =>
        /\ driver = "moebius" => result = Mu(arg)
        /\ driver = "is_prime" => result = Prime(arg)

\* moebius returned -1 for a product of three distinct primes.
C34_Witness ==
    /\ driver = "moebius"
    /\ pc[Client] = "done"
    /\ Cardinality(PrimeFactors(arg)) = 3
    /\ result = -1

====
